---- MODULE Spec2Model ----
(***************************************************************************)
(* Firmware retraction (G10/G11) with z-hop for klippy:                    *)
(* klippy/extras/firmware_retraction.py, class FirmwareRetraction.         *)
(*                                                                         *)
(* Lengths and coordinates are integers in units of 0.00001 mm, the        *)
(* resolution of the "{:.5f}" fields of the emitted g-code; speeds are in  *)
(* mm/s; helix_slope is in thousandths.                                    *)
(***************************************************************************)
EXTENDS Integers, Sequences, FiniteSets, TLC

VARIABLES
    fr,              \* the FirmwareRetraction instance: one field per attribute
    config,          \* the persisted configuration (config_ref), read only
    gcode_handlers,  \* gcode dispatch table: command name -> handler
    gcode_move,      \* gcode_move: coordinate mode and gcode position
    toolhead,        \* toolhead motion limits
    homed,           \* 'xyz' in kinematics homed_axes
    can_extrude,     \* extruder.heater.can_extrude
    shutdown,        \* an internal error in a handler shut the host down
    script,          \* commands the last operation sent to the command layer
    op,              \* the last command or event the instance handled (history)
    pre              \* what held when that command or event arrived (history)

vars == << fr, config, gcode_handlers, gcode_move, toolhead, homed,
           can_extrude, shutdown, script, op, pre >>

----------------------------------------------------------------------------
(* Program constants *)

SMALLEST_RADIUS == 1

RETRACTION_MOVE_SPEED_FRACTION == 80     \* percent

MM == 100000 * SMALLEST_RADIUS

valid_z_hop_styles == {"standard", "ramp", "helix"}

(* Bounds of the model *)

MaxQueue == 2

----------------------------------------------------------------------------
(* Small helpers *)

Max(a, b) == IF a >= b THEN a ELSE b

Abs(a) == IF a < 0 THEN -a ELSE a

\* str.strip().lower() on the style strings the model feeds in
StripLower(s) ==
    CASE s = " RAMP"  -> "ramp"
      [] s = "Helix " -> "helix"
      [] OTHER        -> s

\* a / helix_slope, helix_slope held in thousandths
DivSlope(a, slope) == (a * 1000) \div slope

\* int(speed * 60): feed rate in mm/min
Feed(speed) == speed * 60

\* int(RETRACTION_MOVE_SPEED_FRACTION * max_vel * 60)
HopFeed(max_vel) == (RETRACTION_MOVE_SPEED_FRACTION * max_vel * 60) \div 100

----------------------------------------------------------------------------
(* The persisted configuration *)

ConfigBase ==
    [ retract_length         |-> 2 * MM,
      retract_speed          |-> 20,
      unretract_extra_length |-> 0,
      unretract_speed        |-> 10,
      z_hop_height           |-> MM,
      z_hop_style            |-> "Helix ",
      helix_slope            |-> 500,
      verbose                |-> FALSE,
      config_params_on_clear |-> TRUE,
      has_stepper_z          |-> TRUE,
      max_z                  |-> 2 * MM,
      has_stepper_xy         |-> TRUE,
      min_x                  |-> 0,
      max_x                  |-> 20 * MM,
      min_y                  |-> 0,
      max_y                  |-> 20 * MM,
      max_velocity           |-> 300,
      max_accel              |-> 3000,
      max_accel_to_decel     |-> 1500,
      square_corner_velocity |-> 5,
      has_virtual_sdcard     |-> TRUE ]

\* Configurations of the state-machine specification
Configs ==
    { [ConfigBase EXCEPT !.config_params_on_clear = b,
                         !.has_virtual_sdcard = v] :
          b \in BOOLEAN, v \in BOOLEAN }

----------------------------------------------------------------------------
(* SET_RETRACTION requests: the parameters a gcmd carries.  keys holds the *)
(* names present in the command; an absent field reads as its default.     *)

NoParams ==
    [ keys                   |-> {},
      RETRACT_LENGTH         |-> 0,
      RETRACT_SPEED          |-> 0,
      UNRETRACT_EXTRA_LENGTH |-> 0,
      UNRETRACT_SPEED        |-> 0,
      Z_HOP_HEIGHT           |-> 0,
      Z_HOP_STYLE            |-> "" ]

Param(name, v) == [NoParams EXCEPT ![name] = v, !.keys = {name}]

\* The SET_RETRACTION commands the model issues (every number within the
\* bounds of its field; " RAMP" needs strip and lower, "spiral" is no style)
SeveralFields ==
    [NoParams EXCEPT !.keys = {"RETRACT_LENGTH", "RETRACT_SPEED",
                               "UNRETRACT_EXTRA_LENGTH", "UNRETRACT_SPEED",
                               "Z_HOP_STYLE"},
                     !.RETRACT_LENGTH = MM,
                     !.RETRACT_SPEED = 30,
                     !.UNRETRACT_EXTRA_LENGTH = 2 * MM,
                     !.UNRETRACT_SPEED = 15,
                     !.Z_HOP_STYLE = "spiral"]

Requests ==
    { Param("RETRACT_LENGTH", 0),
      Param("Z_HOP_HEIGHT", 0),
      Param("Z_HOP_STYLE", " RAMP"),
      SeveralFields }

\* To bound the state space, a machine with a job queue is sent fewer kinds
\* of request than one that is streamed to
RequestsFor(cfg) ==
    IF cfg.has_virtual_sdcard
    THEN { Param("Z_HOP_HEIGHT", 0), SeveralFields }
    ELSE Requests

\* gcmd.get_float(name, default, minval=minval)
get_float(gcmd, name, default, minval) ==
    IF name \in gcmd.keys THEN Max(gcmd[name], minval) ELSE default

\* gcmd.get(name, default)
get(gcmd, name, default) ==
    IF name \in gcmd.keys THEN gcmd[name] ELSE default

----------------------------------------------------------------------------
(* FirmwareRetraction: configuration and parameters *)

_check_z_hop_style(f) ==
    IF f.z_hop_style \notin valid_z_hop_styles
    THEN [f EXCEPT !.z_hop_style = "standard"]
    ELSE f

\* The configuration loader accepts only values within minval, so a loaded
\* value is the configured one.
_get_config_params(f, cfg) ==
    _check_z_hop_style(
        [f EXCEPT !.retract_length = cfg.retract_length,
                  !.retract_speed = cfg.retract_speed,
                  !.unretract_extra_length = cfg.unretract_extra_length,
                  !.unretract_speed = cfg.unretract_speed,
                  !.z_hop_height = cfg.z_hop_height,
                  !.z_hop_style = StripLower(cfg.z_hop_style),
                  !.helix_slope = cfg.helix_slope,
                  !.verbose = cfg.verbose,
                  !.config_params_on_clear = cfg.config_params_on_clear])

\* The attributes before __init__ has assigned them
Blank ==
    [ retract_length |-> 0, retract_speed |-> 0,
      unretract_extra_length |-> 0, unretract_speed |-> 0,
      z_hop_height |-> 0, z_hop_style |-> "", helix_slope |-> 0,
      verbose |-> FALSE, config_params_on_clear |-> FALSE,
      unretract_length |-> 0, currentZ |-> 0, z_hop_Z |-> 0,
      safe_z_hop_height |-> 0, helix_radius |-> 0,
      i_offset |-> 0, j_offset |-> 0,
      is_retracted |-> FALSE, ramp_move |-> FALSE,
      vsdcard_paused |-> FALSE, G1_toggle_state |-> FALSE,
      clockwise_helix |-> FALSE, printing_from_VSDCard |-> FALSE,
      stored_set_retraction_gcmds |-> << >>, acc_vel_state |-> << >> ]

\* FirmwareRetraction.__init__
FirmwareRetraction(cfg) ==
    LET f == _get_config_params(Blank, cfg) IN
    [f EXCEPT !.unretract_length = f.retract_length + f.unretract_extra_length,
              !.currentZ = 0,
              !.z_hop_Z = 0,
              !.safe_z_hop_height = f.z_hop_height,
              !.helix_radius = DivSlope(f.z_hop_height, f.helix_slope),
              !.i_offset = MM,
              !.j_offset = MM,
              !.is_retracted = FALSE,
              !.ramp_move = FALSE,
              !.vsdcard_paused = FALSE,
              !.G1_toggle_state = FALSE,
              !.clockwise_helix = FALSE,
              !.printing_from_VSDCard = FALSE,
              !.stored_set_retraction_gcmds = << >>,
              !.acc_vel_state = << >>]

\* Mutant: the numbers are read without their minimum
_execute_set_retraction_without_minval(f, gcmd) ==
    LET f1 == [f EXCEPT
                 !.retract_length =
                     get(gcmd, "RETRACT_LENGTH", f.retract_length),
                 !.retract_speed =
                     get(gcmd, "RETRACT_SPEED", f.retract_speed),
                 !.unretract_extra_length =
                     get(gcmd, "UNRETRACT_EXTRA_LENGTH",
                         f.unretract_extra_length),
                 !.unretract_speed =
                     get(gcmd, "UNRETRACT_SPEED", f.unretract_speed),
                 !.z_hop_height =
                     get(gcmd, "Z_HOP_HEIGHT", f.z_hop_height),
                 !.z_hop_style =
                     StripLower(get(gcmd, "Z_HOP_STYLE", f.z_hop_style))]
        f2 == _check_z_hop_style(f1)
    IN  [f2 EXCEPT !.unretract_length =
                       f2.retract_length + f2.unretract_extra_length]

_execute_set_retraction(f, gcmd) ==
    LET f1 == [f EXCEPT
                 !.retract_length =
                     get_float(gcmd, "RETRACT_LENGTH", f.retract_length, 0),
                 !.retract_speed =
                     get_float(gcmd, "RETRACT_SPEED", f.retract_speed, 1),
                 !.unretract_extra_length =
                     get_float(gcmd, "UNRETRACT_EXTRA_LENGTH",
                               f.unretract_extra_length, 0),
                 !.unretract_speed =
                     get_float(gcmd, "UNRETRACT_SPEED", f.unretract_speed, 1),
                 !.z_hop_height =
                     get_float(gcmd, "Z_HOP_HEIGHT", f.z_hop_height, 0),
                 !.z_hop_style =
                     StripLower(get(gcmd, "Z_HOP_STYLE", f.z_hop_style))]
        f2 == _check_z_hop_style(f1)
    IN  [f2 EXCEPT !.unretract_length =
                       f2.retract_length + f2.unretract_extra_length]

----------------------------------------------------------------------------
(* The world a handler runs in: the instance and its collaborators.        *)
(* Handlers are operators from worlds to worlds; raised marks a handler    *)
(* that ended in an exception.                                             *)

World ==
    [ fr |-> fr, config |-> config, gcode_handlers |-> gcode_handlers,
      gcode_move |-> gcode_move, toolhead |-> toolhead, homed |-> homed,
      can_extrude |-> can_extrude, script |-> << >>, raised |-> FALSE ]

\* gcode.register_command(cmd, func): func "None" removes the entry
register_command(w, cmd, func) ==
    [w EXCEPT !.gcode_handlers[cmd] = func]

_toggle_gcode_comms(w, new_cmd_name, old_cmd_name, new_cmd_func, toggle_state) ==
    LET prev_cmd == w.gcode_handlers[old_cmd_name]
        w1 == register_command(w, old_cmd_name, "None")
    IN  IF ~toggle_state
        THEN register_command(
                 register_command(w1, new_cmd_name, prev_cmd),
                 old_cmd_name, new_cmd_func)
        ELSE register_command(
                 register_command(w1, new_cmd_name, new_cmd_func),
                 new_cmd_name, prev_cmd)

_unregister_G1(w) ==
    IF w.fr.G1_toggle_state = FALSE
    THEN _toggle_gcode_comms(
             _toggle_gcode_comms(w, "G1.20140114", "G1", "_G1_zhop",
                                 w.fr.G1_toggle_state),
             "G0.20140114", "G0", "_G1_zhop", w.fr.G1_toggle_state)
    ELSE w

\* Mutant: the original handlers are not put back
_re_register_G1_skipped(w) == w

_re_register_G1(w) ==
    IF w.fr.G1_toggle_state = TRUE
    THEN _toggle_gcode_comms(
             _toggle_gcode_comms(w, "G1", "G1.20140114", "None",
                                 w.fr.G1_toggle_state),
             "G0", "G0.20140114", "None", w.fr.G1_toggle_state)
    ELSE w

\* Mutant: the stored commands survive the clear
_execute_clear_retraction_keeping_queue(w) ==
    LET w1 == IF w.fr.z_hop_height > 0
              THEN [_re_register_G1(w) EXCEPT !.fr.G1_toggle_state = FALSE]
              ELSE w
        w2 == [w1 EXCEPT !.fr.is_retracted = FALSE,
                         !.fr.ramp_move = FALSE]
    IN  IF w2.fr.config_params_on_clear
        THEN [w2 EXCEPT !.fr = _get_config_params(w2.fr, w2.config)]
        ELSE w2

\* Mutant: the configuration is reloaded whatever config_params_on_clear
_execute_clear_retraction_always_reloading(w) ==
    LET w1 == IF w.fr.z_hop_height > 0
              THEN [_re_register_G1(w) EXCEPT !.fr.G1_toggle_state = FALSE]
              ELSE w
        w2 == [w1 EXCEPT !.fr.is_retracted = FALSE,
                         !.fr.ramp_move = FALSE,
                         !.fr.stored_set_retraction_gcmds = << >>]
    IN  [w2 EXCEPT !.fr = _get_config_params(w2.fr, w2.config)]

\* Mutant: the ramp flag survives the clear
_execute_clear_retraction_keeping_ramp(w) ==
    LET w1 == IF w.fr.z_hop_height > 0
              THEN [_re_register_G1(w) EXCEPT !.fr.G1_toggle_state = FALSE]
              ELSE w
        w2 == [w1 EXCEPT !.fr.is_retracted = FALSE,
                         !.fr.stored_set_retraction_gcmds = << >>]
    IN  IF w2.fr.config_params_on_clear
        THEN [w2 EXCEPT !.fr = _get_config_params(w2.fr, w2.config)]
        ELSE w2

\* Mutant: the handler-swapped flag survives the clear
_execute_clear_retraction_keeping_flag(w) ==
    LET w1 == IF w.fr.z_hop_height > 0 THEN _re_register_G1(w) ELSE w
        w2 == [w1 EXCEPT !.fr.is_retracted = FALSE,
                         !.fr.ramp_move = FALSE,
                         !.fr.stored_set_retraction_gcmds = << >>]
    IN  IF w2.fr.config_params_on_clear
        THEN [w2 EXCEPT !.fr = _get_config_params(w2.fr, w2.config)]
        ELSE w2

_execute_clear_retraction(w) ==
    LET w1 == IF w.fr.z_hop_height > 0
              THEN [_re_register_G1(w) EXCEPT !.fr.G1_toggle_state = FALSE]
              ELSE w
        w2 == [w1 EXCEPT !.fr.is_retracted = FALSE,
                         !.fr.ramp_move = FALSE,
                         !.fr.stored_set_retraction_gcmds = << >>]
    IN  IF w2.fr.config_params_on_clear
        THEN [w2 EXCEPT !.fr = _get_config_params(w2.fr, w2.config)]
        ELSE w2

----------------------------------------------------------------------------
(* Lifecycle events *)

\* Mutant: the pause flag is not consulted
_evaluate_retraction_ignoring_pause(w) ==
    IF w.fr.is_retracted THEN _execute_clear_retraction(w) ELSE w

_evaluate_retraction(w) ==
    IF w.fr.is_retracted
    THEN IF w.fr.vsdcard_paused
         THEN [w EXCEPT !.fr.vsdcard_paused = FALSE]
         ELSE _execute_clear_retraction(w)
    ELSE w

_reset_pause_flag(w) ==
    _evaluate_retraction(
        [w EXCEPT !.fr.vsdcard_paused = FALSE,
                  !.fr.printing_from_VSDCard = FALSE])

\* Mutant: a started job resets the pause flag before evaluating
_set_VSDCard_flag_resetting_pause(w) ==
    _evaluate_retraction(
        [w EXCEPT !.fr.vsdcard_paused = FALSE,
                  !.fr.printing_from_VSDCard = TRUE])

_set_VSDCard_flag(w) ==
    _evaluate_retraction(
        IF ~w.fr.printing_from_VSDCard
        THEN [w EXCEPT !.fr.printing_from_VSDCard = TRUE]
        ELSE w)

_reset_VSDCard_flag(w) ==
    _evaluate_retraction(
        IF w.fr.printing_from_VSDCard
        THEN [w EXCEPT !.fr.printing_from_VSDCard = FALSE]
        ELSE w)

_set_pause_flag(w) == [w EXCEPT !.fr.vsdcard_paused = TRUE]

\* printer.register_event_handler in _handle_ready: the names the handlers
\* are registered under.  The name of the cancel event is a string literal
\* continued over a line break (lines 405-406), so it ends with the sixteen
\* blanks that indent the continuation line.
event_handlers(cfg) ==
    ("homing:homing_move_begin" :> "_evaluate_retraction")
      @@ ("stepper_enable:motor_off" :> "_evaluate_retraction")
      @@ (IF cfg.has_virtual_sdcard
          THEN ("virtual_sdcard:reset_file" :> "_reset_pause_flag")
                 @@ ("print_stats:start_printing" :> "_set_VSDCard_flag")
                 @@ ("print_stats:complete_printing" :> "_reset_VSDCard_flag")
                 @@ ("print_stats:cancelled_printing                "
                       :> "_reset_pause_flag")
                 @@ ("print_stats:paused_printing" :> "_set_pause_flag")
          ELSE [e \in {} |-> ""])

\* printer.send_event(event): the handler registered under exactly this
\* name runs, if there is one
send_event(w, event) ==
    IF event \notin DOMAIN event_handlers(w.config)
    THEN w
    ELSE LET h == event_handlers(w.config)[event] IN
         CASE h = "_evaluate_retraction" -> _evaluate_retraction(w)
           [] h = "_reset_pause_flag"    -> _reset_pause_flag(w)
           [] h = "_set_VSDCard_flag"    -> _set_VSDCard_flag(w)
           [] h = "_reset_VSDCard_flag"  -> _reset_VSDCard_flag(w)
           [] h = "_set_pause_flag"      -> _set_pause_flag(w)

----------------------------------------------------------------------------
(* Commands that emit no g-code *)

\* Mutant: the request is stored whatever the retract state
cmd_SET_RETRACTION_always_queueing(w, gcmd) ==
    [w EXCEPT !.fr.stored_set_retraction_gcmds =
                  Append(w.fr.stored_set_retraction_gcmds, gcmd)]

\* Mutant: the request is applied whatever the retract state
cmd_SET_RETRACTION_unguarded(w, gcmd) ==
    [w EXCEPT !.fr = _execute_set_retraction(w.fr, gcmd)]

cmd_SET_RETRACTION(w, gcmd) ==
    IF ~w.fr.is_retracted
    THEN [w EXCEPT !.fr = _execute_set_retraction(w.fr, gcmd)]
    ELSE [w EXCEPT !.fr.stored_set_retraction_gcmds =
                       Append(w.fr.stored_set_retraction_gcmds, gcmd)]

\* Mutant: the retract state is not checked
cmd_CLEAR_RETRACTION_unguarded(w) == _execute_clear_retraction(w)

cmd_CLEAR_RETRACTION(w) ==
    IF w.fr.is_retracted THEN _execute_clear_retraction(w) ELSE w

----------------------------------------------------------------------------
(* The command layer: gcode, gcode_move and toolhead as the handlers use   *)
(* them.  A command is [cmd, name, params]; params maps the parameter      *)
(* letters present to their values.                                        *)

Cmd(c, ps) == [cmd |-> c, name |-> "", params |-> ps]

StateCmd(c, n) == [cmd |-> c, name |-> n, params |-> << >>]

Has(ps, k) == k \in DOMAIN ps

\* dict assignment params[k] = v
Put(ps, k, v) == (k :> v) @@ ps

ModeName(absolute) == IF absolute THEN "absolute" ELSE "relative"

\* The builtin G1/G0 of gcode_move: move the gcode position
cmd_G1(w, ps) ==
    LET pos == w.gcode_move.gcode_position
        abs == w.gcode_move.absolute_coordinates
        To(axis, cur) == IF Has(ps, axis)
                         THEN (IF abs THEN ps[axis] ELSE cur + ps[axis])
                         ELSE cur
    IN  [w EXCEPT !.gcode_move.gcode_position =
                      [x |-> To("X", pos.x), y |-> To("Y", pos.y),
                       z |-> To("Z", pos.z)]]

\* _toolhead_is_relative
_toolhead_is_relative(w) == ~w.gcode_move.absolute_coordinates

RECURSIVE run_script_from_command(_, _)

RECURSIVE process_command(_, _)

\* Mutant: the hop offset is added in relative mode too
G1_zhop_params_offset_in_relative(f, ps, is_relative) ==
    IF f.ramp_move
    THEN IF ~Has(ps, "Z")
         THEN IF is_relative
              THEN Put(ps, "Z", f.safe_z_hop_height)
              ELSE Put(ps, "Z", f.z_hop_Z)
         ELSE Put(ps, "Z", ps["Z"] + f.safe_z_hop_height)
    ELSE IF Has(ps, "Z")
         THEN Put(ps, "Z", ps["Z"] + f.safe_z_hop_height)
         ELSE ps

\* The rewritten parameters of an intercepted G1/G0
G1_zhop_params(f, ps, is_relative) ==
    IF f.ramp_move
    THEN IF ~Has(ps, "Z")
         THEN IF is_relative
              THEN Put(ps, "Z", f.safe_z_hop_height)
              ELSE Put(ps, "Z", f.z_hop_Z)
         ELSE Put(ps, "Z", ps["Z"] + f.safe_z_hop_height)
    ELSE IF Has(ps, "Z") /\ ~is_relative
         THEN Put(ps, "Z", ps["Z"] + f.safe_z_hop_height)
         ELSE ps

\* Mutant: the ramp flag is not reset
_G1_zhop_keeping_ramp(w, ps) ==
    LET is_relative == _toolhead_is_relative(w)
        new_ps == G1_zhop_params(w.fr, ps, is_relative)
    IN  run_script_from_command(w, << Cmd("G1.20140114", new_ps) >>)

_G1_zhop(w, ps) ==
    LET is_relative == _toolhead_is_relative(w)
        new_ps == G1_zhop_params(w.fr, ps, is_relative)
        w1 == [w EXCEPT !.fr.ramp_move = FALSE]
    IN  run_script_from_command(w1, << Cmd("G1.20140114", new_ps) >>)

\* gcode dispatch of one command of a script
process_command(w, c) ==
    LET w1 == [w EXCEPT !.script = Append(w.script, c)] IN
    CASE c.cmd = "SAVE_GCODE_STATE" ->
           [w1 EXCEPT !.gcode_move.saved_states[c.name] =
                          ModeName(w.gcode_move.absolute_coordinates)]
      [] c.cmd = "RESTORE_GCODE_STATE" ->
           IF w.gcode_move.saved_states[c.name] = "unsaved"
           THEN [w1 EXCEPT !.raised = TRUE]
           ELSE [w1 EXCEPT !.gcode_move.absolute_coordinates =
                               (w.gcode_move.saved_states[c.name] = "absolute"),
                           !.gcode_move.saved_states[c.name] = "unsaved"]
      [] c.cmd = "G90" -> [w1 EXCEPT !.gcode_move.absolute_coordinates = TRUE]
      [] c.cmd = "G91" -> [w1 EXCEPT !.gcode_move.absolute_coordinates = FALSE]
      [] c.cmd = "M204" -> [w1 EXCEPT !.toolhead.max_accel = c.params["S"]]
      [] c.cmd = "SET_VELOCITY_LIMIT" ->
           LET Lim(k, cur) == IF Has(c.params, k) THEN c.params[k] ELSE cur
               t == w.toolhead
           IN  [w1 EXCEPT !.toolhead =
                   [max_velocity |-> Lim("VELOCITY", t.max_velocity),
                    max_accel |-> Lim("ACCEL", t.max_accel),
                    max_accel_to_decel |->
                        Lim("ACCEL_TO_DECEL", t.max_accel_to_decel),
                    square_corner_velocity |->
                        Lim("SQUARE_CORNER_VELOCITY",
                            t.square_corner_velocity)]]
      [] c.cmd \in {"G2", "G3"} ->
           \* a full circle in the XY plane ending at Z (absolute mode only)
           IF ~w.gcode_move.absolute_coordinates
           THEN [w1 EXCEPT !.raised = TRUE]
           ELSE [w1 EXCEPT !.gcode_move.gcode_position.z = c.params["Z"]]
      [] c.cmd \in {"G1", "G0", "G1.20140114", "G0.20140114"} ->
           LET h == w.gcode_handlers[c.cmd] IN
           CASE h = "cmd_G1"   -> cmd_G1(w1, c.params)
             [] h = "_G1_zhop" -> _G1_zhop(w1, c.params)
             [] OTHER          -> [w1 EXCEPT !.raised = TRUE]
      [] OTHER -> w1

\* gcode.run_script_from_command: the commands run in order; an error ends it
run_script_from_command(w, cmds) ==
    IF cmds = << >> \/ w.raised
    THEN w
    ELSE run_script_from_command(process_command(w, Head(cmds)), Tail(cmds))

----------------------------------------------------------------------------
(* Geometry *)

_get_gcode_pos(w) == w.gcode_move.gcode_position

_save_acc_vel_state(w) ==
    [w EXCEPT !.fr.acc_vel_state =
                  << w.toolhead.max_velocity, w.toolhead.max_accel,
                     w.toolhead.max_accel_to_decel,
                     w.toolhead.square_corner_velocity >>]

\* Mutant: the hop is not clamped to the Z travel
_set_safe_zhop_retract_params_unclamped(w) ==
    LET w1 == [w EXCEPT !.fr.safe_z_hop_height = w.fr.z_hop_height]
        w2 == IF w.config.has_stepper_z
              THEN [w1 EXCEPT !.fr.currentZ = _get_gcode_pos(w1).z]
              ELSE w1
    IN  [w2 EXCEPT !.fr.z_hop_Z = w2.fr.currentZ + w2.fr.safe_z_hop_height]

_set_safe_zhop_retract_params(w) ==
    LET w1 == [w EXCEPT !.fr.safe_z_hop_height = w.fr.z_hop_height]
        w2 == IF w.config.has_stepper_z
              THEN LET cz == _get_gcode_pos(w1).z IN
                   IF cz + w1.fr.z_hop_height > w1.config.max_z
                   THEN [w1 EXCEPT !.fr.currentZ = cz,
                                   !.fr.safe_z_hop_height =
                                       w1.config.max_z - cz]
                   ELSE [w1 EXCEPT !.fr.currentZ = cz]
              ELSE w1
    IN  [w2 EXCEPT !.fr.z_hop_Z = w2.fr.currentZ + w2.fr.safe_z_hop_height]

\* Mutant: the unretract starts again from the full hop height
_set_safe_zhop_unretract_params_from_hop_height(w) ==
    LET cz == _get_gcode_pos(w).z
        w1 == [w EXCEPT !.fr.currentZ = cz,
                        !.fr.safe_z_hop_height = w.fr.z_hop_height]
    IN  IF cz - w1.fr.safe_z_hop_height < 0
        THEN [w1 EXCEPT !.fr.safe_z_hop_height = -1 * cz]
        ELSE w1

_set_safe_zhop_unretract_params(w) ==
    LET cz == _get_gcode_pos(w).z
        w1 == [w EXCEPT !.fr.currentZ = cz]
    IN  IF cz - w1.fr.safe_z_hop_height < 0
        THEN [w1 EXCEPT !.fr.safe_z_hop_height = -1 * cz]
        ELSE w1

\* distance.index(min(distance)): the first index holding the minimum
IndexOfMin(distance) ==
    CHOOSE i \in 1..Len(distance) :
        /\ \A j \in 1..Len(distance) : distance[i] <= distance[j]
        /\ \A j \in 1..(i - 1) : distance[j] > distance[i]

\* helix_center_vectors, keyed 1..4 for the source's '0'..'3'
helix_center_vectors == << << 1, 0 >>, << 0, -1 >>, << -1, 0 >>, << 0, 1 >> >>

\* Mutant: no exclusion zone, the radius is reduced but never zero
_set_helix_center_params_without_exclusion(w, lines_ok) ==
    LET pos == _get_gcode_pos(w)
        cfg == w.config
        nominal == Max(DivSlope(w.fr.safe_z_hop_height, w.fr.helix_slope),
                       SMALLEST_RADIUS)
        distance == << pos.x - cfg.min_x, cfg.max_y - pos.y,
                       cfg.max_x - pos.x, pos.y - cfg.min_y >>
        quadrant == IndexOfMin(distance)
        radius == IF distance[quadrant] <= 2 * nominal
                  THEN Max(distance[quadrant] - nominal, SMALLEST_RADIUS)
                  ELSE nominal
        w1 == IF cfg.has_stepper_xy
              THEN [w EXCEPT
                      !.fr.helix_radius = radius,
                      !.fr.i_offset = radius * helix_center_vectors[quadrant][1],
                      !.fr.j_offset = radius * helix_center_vectors[quadrant][2],
                      !.fr.clockwise_helix =
                          (2 * pos.x >= cfg.min_x + cfg.max_x)]
              ELSE [w EXCEPT !.fr.helix_radius = nominal,
                             !.fr.i_offset = -1 * nominal,
                             !.fr.j_offset = 0]
    IN  IF w1.fr.printing_from_VSDCard /\ ~lines_ok
        THEN [w1 EXCEPT !.raised = TRUE]
        ELSE w1

\* Mutant: the bed bounds are not consulted
_set_helix_center_params_without_bounds(w, lines_ok) ==
    LET nominal == Max(DivSlope(w.fr.safe_z_hop_height, w.fr.helix_slope),
                       SMALLEST_RADIUS)
        w1 == [w EXCEPT !.fr.helix_radius = nominal,
                        !.fr.i_offset = -1 * nominal,
                        !.fr.j_offset = 0]
    IN  IF w1.fr.printing_from_VSDCard /\ ~lines_ok
        THEN [w1 EXCEPT !.raised = TRUE]
        ELSE w1

\* Mutant: no transition zone, the radius is the nominal one or zero
_set_helix_center_params_without_transition(w, lines_ok) ==
    LET pos == _get_gcode_pos(w)
        cfg == w.config
        nominal == Max(DivSlope(w.fr.safe_z_hop_height, w.fr.helix_slope),
                       SMALLEST_RADIUS)
        distance == << pos.x - cfg.min_x, cfg.max_y - pos.y,
                       cfg.max_x - pos.x, pos.y - cfg.min_y >>
        quadrant == IndexOfMin(distance)
        radius == IF distance[quadrant] <= nominal
                  THEN 0
                  ELSE nominal
        w1 == IF cfg.has_stepper_xy
              THEN [w EXCEPT
                      !.fr.helix_radius = radius,
                      !.fr.i_offset = radius * helix_center_vectors[quadrant][1],
                      !.fr.j_offset = radius * helix_center_vectors[quadrant][2],
                      !.fr.clockwise_helix =
                          (2 * pos.x >= cfg.min_x + cfg.max_x)]
              ELSE [w EXCEPT !.fr.helix_radius = nominal,
                             !.fr.i_offset = -1 * nominal,
                             !.fr.j_offset = 0]
    IN  IF w1.fr.printing_from_VSDCard /\ ~lines_ok
        THEN [w1 EXCEPT !.raised = TRUE]
        ELSE w1

\* Mutant: the rotation does not depend on the position
_set_helix_center_params_always_counter_clockwise(w, lines_ok) ==
    LET pos == _get_gcode_pos(w)
        cfg == w.config
        nominal == Max(DivSlope(w.fr.safe_z_hop_height, w.fr.helix_slope),
                       SMALLEST_RADIUS)
        distance == << pos.x - cfg.min_x, cfg.max_y - pos.y,
                       cfg.max_x - pos.x, pos.y - cfg.min_y >>
        quadrant == IndexOfMin(distance)
        radius == IF distance[quadrant] <= nominal
                  THEN 0
                  ELSE IF distance[quadrant] <= 2 * nominal
                       THEN Max(distance[quadrant] - nominal, SMALLEST_RADIUS)
                       ELSE nominal
        w1 == IF cfg.has_stepper_xy
              THEN [w EXCEPT
                      !.fr.helix_radius = radius,
                      !.fr.i_offset = radius * helix_center_vectors[quadrant][1],
                      !.fr.j_offset = radius * helix_center_vectors[quadrant][2],
                      !.fr.clockwise_helix = FALSE]
              ELSE [w EXCEPT !.fr.helix_radius = nominal,
                             !.fr.i_offset = -1 * nominal,
                             !.fr.j_offset = 0]
    IN  IF w1.fr.printing_from_VSDCard /\ ~lines_ok
        THEN [w1 EXCEPT !.raised = TRUE]
        ELSE w1

\* lines_ok: whether reading vsdcard.current_lines[-1] succeeds
_set_helix_center_params(w, lines_ok) ==
    LET pos == _get_gcode_pos(w)
        cfg == w.config
        nominal == Max(DivSlope(w.fr.safe_z_hop_height, w.fr.helix_slope),
                       SMALLEST_RADIUS)
        distance == << pos.x - cfg.min_x, cfg.max_y - pos.y,
                       cfg.max_x - pos.x, pos.y - cfg.min_y >>
        quadrant == IndexOfMin(distance)
        radius == IF distance[quadrant] <= nominal
                  THEN 0
                  ELSE IF distance[quadrant] <= 2 * nominal
                       THEN Max(distance[quadrant] - nominal, SMALLEST_RADIUS)
                       ELSE nominal
        w1 == IF cfg.has_stepper_xy
              THEN [w EXCEPT
                      !.fr.helix_radius = radius,
                      !.fr.i_offset = radius * helix_center_vectors[quadrant][1],
                      !.fr.j_offset = radius * helix_center_vectors[quadrant][2],
                      !.fr.clockwise_helix =
                          (2 * pos.x >= cfg.min_x + cfg.max_x)]
              ELSE [w EXCEPT !.fr.helix_radius = nominal,
                             !.fr.i_offset = -1 * nominal,
                             !.fr.j_offset = 0]
    IN  IF w1.fr.printing_from_VSDCard /\ ~lines_ok
        THEN [w1 EXCEPT !.raised = TRUE]
        ELSE w1

----------------------------------------------------------------------------
(* G10 / M103: retract *)

\* Mutant: the helix hop is an arc whatever the radius
RetractHopMove_always_arc(f, cfg) ==
    IF f.z_hop_style = "helix"
    THEN << Cmd("G17", << >>),
            Cmd(IF f.clockwise_helix THEN "G2" ELSE "G3",
                ("Z" :> f.z_hop_Z) @@ ("I" :> f.i_offset)
                  @@ ("J" :> f.j_offset)
                  @@ ("F" :> HopFeed(cfg.max_velocity))) >>
    ELSE IF f.z_hop_style = "standard"
         THEN << Cmd("G1", ("Z" :> f.z_hop_Z)
                             @@ ("F" :> HopFeed(cfg.max_velocity))) >>
         ELSE << >>

RetractHopMove(f, cfg) ==
    IF f.z_hop_style = "helix"
    THEN IF f.helix_radius = 0
         THEN << Cmd("G17", << >>),
                 Cmd("G1", ("Z" :> f.z_hop_Z) @@ ("F" :> HopFeed(cfg.max_velocity))) >>
         ELSE << Cmd("G17", << >>),
                 Cmd(IF f.clockwise_helix THEN "G2" ELSE "G3",
                     ("Z" :> f.z_hop_Z) @@ ("I" :> f.i_offset)
                       @@ ("J" :> f.j_offset)
                       @@ ("F" :> HopFeed(cfg.max_velocity))) >>
    ELSE IF f.z_hop_style = "standard"
         THEN << Cmd("G1", ("Z" :> f.z_hop_Z)
                             @@ ("F" :> HopFeed(cfg.max_velocity))) >>
         ELSE << >>

\* Mutant: the velocities are restored, the accelerations are not
RestoreLimits_without_accel(f) ==
    Cmd("SET_VELOCITY_LIMIT",
        ("VELOCITY" :> f.acc_vel_state[1])
          @@ ("SQUARE_CORNER_VELOCITY" :> f.acc_vel_state[4]))

RestoreLimits(f) ==
    Cmd("SET_VELOCITY_LIMIT",
        ("VELOCITY" :> f.acc_vel_state[1]) @@ ("ACCEL" :> f.acc_vel_state[2])
          @@ ("ACCEL_TO_DECEL" :> f.acc_vel_state[3])
          @@ ("SQUARE_CORNER_VELOCITY" :> f.acc_vel_state[4]))

MaxVelocity(cfg) ==
    Cmd("SET_VELOCITY_LIMIT",
        ("VELOCITY" :> cfg.max_velocity)
          @@ ("SQUARE_CORNER_VELOCITY" :> cfg.square_corner_velocity))

\* Mutant: the handlers are swapped whatever the hop height
SwapHandlersAfterRetract_unconditional(w) ==
    [_unregister_G1(w) EXCEPT !.fr.G1_toggle_state = TRUE]

\* The end of cmd_G10 (lines 203-207): swap the G1 handlers if z_hop enabled
SwapHandlersAfterRetract(w) ==
    IF w.fr.z_hop_height > 0
    THEN [_unregister_G1(w) EXCEPT !.fr.G1_toggle_state = TRUE]
    ELSE w

\* The successful branch of cmd_G10 (lines 141-207)
Retract(w, lines_ok) ==
    LET cfg == w.config
        w1 == _save_acc_vel_state(w)
        head == << StateCmd("SAVE_GCODE_STATE", "_retract_state"),
                   Cmd("G91", << >>),
                   Cmd("M204", "S" :> cfg.max_accel),
                   Cmd("G1", ("E" :> -1 * w1.fr.retract_length)
                               @@ ("F" :> Feed(w1.fr.retract_speed))),
                   Cmd("G90", << >>) >>
        hop == w1.fr.z_hop_height > 0
        w2 == IF hop THEN _set_safe_zhop_retract_params(w1) ELSE w1
        w3 == IF hop /\ w2.fr.z_hop_style = "helix"
              THEN _set_helix_center_params(w2, lines_ok)
              ELSE IF hop /\ w2.fr.z_hop_style = "ramp"
                   THEN [w2 EXCEPT !.fr.ramp_move = TRUE]
                   ELSE w2
        move == IF hop
                THEN << MaxVelocity(cfg) >> \o RetractHopMove(w3.fr, cfg)
                ELSE << >>
        tail == << RestoreLimits(w3.fr),
                   StateCmd("RESTORE_GCODE_STATE", "_retract_state") >>
        w4 == IF w3.raised THEN w3
              ELSE run_script_from_command(w3, head \o move \o tail)
        w5 == [w4 EXCEPT !.fr.is_retracted = TRUE, !.fr.acc_vel_state = << >>]
    IN  IF w4.raised
        THEN w4
        ELSE SwapHandlersAfterRetract(w5)

\* Mutant: the homing status is not checked
cmd_G10_without_homing_check(w, lines_ok) ==
    IF ~w.can_extrude THEN w
    ELSE IF w.fr.retract_length = 0 THEN w
    ELSE IF ~w.fr.is_retracted THEN Retract(w, lines_ok)
    ELSE w

\* Mutant: retracts although the retract length is zero
cmd_G10_without_length_check(w, lines_ok) ==
    IF ~w.homed THEN w
    ELSE IF ~w.can_extrude THEN w
    ELSE IF ~w.fr.is_retracted THEN Retract(w, lines_ok)
    ELSE w

\* Mutant: retracts again when already retracted
cmd_G10_without_retracted_check(w, lines_ok) ==
    IF ~w.homed THEN w
    ELSE IF ~w.can_extrude THEN w
    ELSE IF w.fr.retract_length = 0 THEN w
    ELSE Retract(w, lines_ok)

cmd_G10(w, lines_ok) ==
    IF ~w.homed THEN w
    ELSE IF ~w.can_extrude THEN w
    ELSE IF w.fr.retract_length = 0 THEN w
    ELSE IF ~w.fr.is_retracted THEN Retract(w, lines_ok)
    ELSE w

----------------------------------------------------------------------------
(* G11 / M101: unretract *)

RECURSIVE ReplayStored(_, _)

RECURSIVE ReplayStored_newest_first(_, _)

\* Mutant: the stored commands are replayed newest first
ReplayStored_newest_first(f, gcmds) ==
    IF gcmds = << >>
    THEN f
    ELSE ReplayStored_newest_first(
             _execute_set_retraction(f, gcmds[Len(gcmds)]),
             SubSeq(gcmds, 1, Len(gcmds) - 1))

\* for stored_gcmd in stored_set_retraction_gcmds: _execute_set_retraction
ReplayStored(f, gcmds) ==
    IF gcmds = << >>
    THEN f
    ELSE ReplayStored(_execute_set_retraction(f, Head(gcmds)), Tail(gcmds))

\* Mutant: the filament is extruded before the nozzle is lowered
UnretractMoves_extruding_first(f, cfg, unhop) ==
    << Cmd("G1", ("E" :> f.unretract_length)
                   @@ ("F" :> Feed(f.unretract_speed))) >>
    \o (IF unhop
        THEN << MaxVelocity(cfg),
                Cmd("G1", ("Z" :> -1 * Abs(f.safe_z_hop_height))
                            @@ ("F" :> HopFeed(cfg.max_velocity))) >>
        ELSE << >>)

\* The moves of the unretract script (lines 242-263): the inverse hop, if
\* due, then the extrusion
UnretractMoves(f, cfg, unhop) ==
    (IF unhop
     THEN << MaxVelocity(cfg),
             Cmd("G1", ("Z" :> -1 * Abs(f.safe_z_hop_height))
                         @@ ("F" :> HopFeed(cfg.max_velocity))) >>
     ELSE << >>)
    \o << Cmd("G1", ("E" :> f.unretract_length)
                      @@ ("F" :> Feed(f.unretract_speed))) >>

\* The warm branch of cmd_G11 (lines 227-275)
Unretract(w) ==
    LET cfg == w.config
        w1 == IF w.fr.z_hop_height > 0
              THEN [_re_register_G1(w) EXCEPT !.fr.G1_toggle_state = FALSE]
              ELSE w
        w2 == _save_acc_vel_state(w1)
        head == << StateCmd("SAVE_GCODE_STATE", "_unretract_state"),
                   Cmd("M204", "S" :> cfg.max_accel),
                   Cmd("G91", << >>) >>
        hop == w2.fr.z_hop_height > 0
        w3 == IF hop /\ w2.fr.ramp_move
              THEN [w2 EXCEPT !.fr.ramp_move = FALSE]
              ELSE IF hop
                   THEN _set_safe_zhop_unretract_params(w2)
                   ELSE w2
        moves == UnretractMoves(w3.fr, cfg, hop /\ ~w2.fr.ramp_move)
        tail == << RestoreLimits(w3.fr),
                   StateCmd("RESTORE_GCODE_STATE", "_unretract_state") >>
        w4 == run_script_from_command(w3, head \o moves \o tail)
        w5 == [w4 EXCEPT !.fr.is_retracted = FALSE, !.fr.acc_vel_state = << >>]
    IN  IF w4.raised
        THEN w4
        ELSE [w5 EXCEPT
                !.fr = [ReplayStored(w5.fr, w5.fr.stored_set_retraction_gcmds)
                          EXCEPT !.stored_set_retraction_gcmds = << >>]]

\* Mutant: the extruder temperature is not checked
cmd_G11_without_temperature_check(w) ==
    IF w.fr.retract_length = 0 THEN w
    ELSE IF w.fr.is_retracted
         THEN Unretract(w)
         ELSE w

\* Mutant: every unretract takes the cold branch
cmd_G11_always_clearing(w) ==
    IF w.fr.retract_length = 0 THEN w
    ELSE IF w.fr.is_retracted
         THEN _execute_clear_retraction(w)
         ELSE w

cmd_G11(w) ==
    IF w.fr.retract_length = 0 THEN w
    ELSE IF w.fr.is_retracted
         THEN IF ~w.can_extrude
              THEN _execute_clear_retraction(w)
              ELSE Unretract(w)
         ELSE w

----------------------------------------------------------------------------
(* The state machine *)

StateNames == {"_retract_state", "_unretract_state"}

HandlerNames == {"G1", "G0", "G1.20140114", "G0.20140114"}

\* The facts recorded about the state an operation started in
Before ==
    [ op |-> op,
      is_retracted |-> fr.is_retracted,
      vsdcard_paused |-> fr.vsdcard_paused,
      queued |-> Len(fr.stored_set_retraction_gcmds) ]

\* ready: the axes are homed and the extruder is hot
InitWith(cfg, pos, ready) ==
    /\ config = cfg
    /\ fr = FirmwareRetraction(cfg)
    /\ gcode_handlers =
           [n \in HandlerNames |-> IF n \in {"G1", "G0"} THEN "cmd_G1" ELSE "None"]
    /\ gcode_move = [absolute_coordinates |-> TRUE,
                     gcode_position |-> pos,
                     saved_states |-> [n \in StateNames |-> "unsaved"]]
    /\ toolhead = [max_velocity |-> cfg.max_velocity,
                   max_accel |-> cfg.max_accel,
                   max_accel_to_decel |-> cfg.max_accel_to_decel,
                   square_corner_velocity |-> cfg.square_corner_velocity]
    /\ homed = ready
    /\ can_extrude = ready
    /\ shutdown = FALSE
    /\ script = << >>
    /\ op = "init"
    /\ pre = Before

Init ==
    \E cfg \in Configs :
        InitWith(cfg, [x |-> 10 * MM, y |-> 10 * MM, z |-> 0], FALSE)

\* The kinematics accept a move that ends within the travel of the axes
InRange(cfg, pos) ==
    /\ pos.x >= cfg.min_x /\ pos.x <= cfg.max_x
    /\ pos.z >= 0 /\ pos.z <= cfg.max_z

\* A handler has run: its world becomes the state.  An exception that is
\* no command error shuts the host down (no further command or event).
\* Commands whose moves the kinematics would reject are not followed.
Commit(w, name) ==
    /\ InRange(config, w.gcode_move.gcode_position)
    /\ fr' = w.fr
    /\ gcode_handlers' = w.gcode_handlers
    /\ gcode_move' = w.gcode_move
    /\ toolhead' = w.toolhead
    /\ script' = w.script
    /\ shutdown' = w.raised
    /\ op' = name
    /\ pre' = Before
    /\ UNCHANGED << config, can_extrude >>

SET_RETRACTION ==
    /\ ~shutdown
    /\ fr.is_retracted => Len(fr.stored_set_retraction_gcmds) < MaxQueue
    /\ \E gcmd \in RequestsFor(config) : Commit(cmd_SET_RETRACTION(World, gcmd), "SET_RETRACTION")
    /\ UNCHANGED homed

CLEAR_RETRACTION ==
    /\ ~shutdown
    /\ Commit(cmd_CLEAR_RETRACTION(World), "CLEAR_RETRACTION")
    /\ UNCHANGED homed

G10 ==
    /\ ~shutdown
    /\ \E lines_ok \in BOOLEAN : Commit(cmd_G10(World, lines_ok), "G10")
    /\ UNCHANGED homed

G11 ==
    /\ ~shutdown
    /\ Commit(cmd_G11(World), "G11")
    /\ UNCHANGED homed

\* homing:homing_move_begin; the homing may leave all axes homed
homing_move_begin ==
    /\ ~shutdown
    /\ Commit(send_event(World, "homing:homing_move_begin"),
              "homing_move_begin")
    /\ homed' \in {homed, TRUE}

\* stepper_enable:motor_off; the kinematics forget the homing
motor_off ==
    /\ ~shutdown
    /\ Commit(send_event(World, "stepper_enable:motor_off"),
              "motor_off")
    /\ homed' = FALSE

reset_file ==
    /\ ~shutdown
    /\ config.has_virtual_sdcard
    /\ Commit(send_event(World, "virtual_sdcard:reset_file"),
              "reset_file")
    /\ UNCHANGED homed

start_printing ==
    /\ ~shutdown
    /\ config.has_virtual_sdcard
    /\ Commit(send_event(World, "print_stats:start_printing"),
              "start_printing")
    /\ UNCHANGED homed

complete_printing ==
    /\ ~shutdown
    /\ config.has_virtual_sdcard
    /\ Commit(send_event(World, "print_stats:complete_printing"),
              "complete_printing")
    /\ UNCHANGED homed

cancelled_printing ==
    /\ ~shutdown
    /\ config.has_virtual_sdcard
    /\ Commit(send_event(World, "print_stats:cancelled_printing"),
              "cancelled_printing")
    /\ UNCHANGED homed

paused_printing ==
    /\ ~shutdown
    /\ config.has_virtual_sdcard
    /\ Commit(send_event(World, "print_stats:paused_printing"),
              "paused_printing")
    /\ UNCHANGED homed

\* The extruder crosses its minimum extrude temperature
Heater ==
    /\ ~shutdown
    /\ can_extrude' = ~can_extrude
    /\ UNCHANGED << fr, config, gcode_handlers, gcode_move, toolhead, homed,
                    shutdown, script, op, pre >>

Next ==
    \/ SET_RETRACTION
    \/ CLEAR_RETRACTION
    \/ G10
    \/ G11
    \/ homing_move_begin
    \/ motor_off
    \/ reset_file
    \/ start_printing
    \/ complete_printing
    \/ cancelled_printing
    \/ paused_printing
    \/ Heater

Spec == Init /\ [][Next]_vars

----------------------------------------------------------------------------
(* The machine in motion: retract, unretract and clear between the moves   *)
(* of a print, on a homed machine with a hot extruder                      *)

\* Configurations of the motion specification: every hop style, with and
\* without a [stepper_z] section
MotionConfigs ==
    { [ConfigBase EXCEPT !.z_hop_style = st,
                         !.has_stepper_z = sz,
                         !.has_virtual_sdcard = FALSE] :
          st \in {"standard", " RAMP", "Helix "}, sz \in BOOLEAN }

\* The heights a print is at when the model starts
StartZ == {0, (3 * MM) \div 2}

\* The parameters of the G1 commands of the print
Moves ==
    { ("X" :> 5 * MM) @@ ("F" :> 3000),
      ("Z" :> MM \div 2),
      ("X" :> 5 * MM) @@ ("Z" :> MM \div 2),
      ("Z" :> -1 * (MM \div 2)) }

MotionInit ==
    \E cfg \in MotionConfigs, z \in StartZ :
        InitWith(cfg, [x |-> 10 * MM, y |-> 10 * MM, z |-> z], TRUE)

\* A G1 of the print, dispatched to whichever handler is registered
Travel ==
    /\ ~shutdown
    /\ \E ps \in Moves :
         Commit(run_script_from_command(World, << Cmd("G1", ps) >>), "G1")
    /\ UNCHANGED homed

G90 ==
    /\ ~shutdown
    /\ ~gcode_move.absolute_coordinates
    /\ Commit(process_command(World, Cmd("G90", << >>)), "G90")
    /\ UNCHANGED homed

G91 ==
    /\ ~shutdown
    /\ gcode_move.absolute_coordinates
    /\ Commit(process_command(World, Cmd("G91", << >>)), "G91")
    /\ UNCHANGED homed

MotionNext ==
    \/ G10
    \/ G11
    \/ CLEAR_RETRACTION
    \/ Travel
    \/ G90
    \/ G91

MotionSpec == MotionInit /\ [][MotionNext]_vars

----------------------------------------------------------------------------
(* The brackets: retract and unretract from the places of a print, under   *)
(* the motion limits the print has set                                     *)

\* Configurations of the bracket specification: every hop style, with and
\* without hop, with and without [stepper_x] / [stepper_y] sections
BracketConfigs ==
    { [ConfigBase EXCEPT !.z_hop_style = st,
                         !.z_hop_height = h,
                         !.has_stepper_xy = xy,
                         !.has_virtual_sdcard = FALSE] :
          st \in {"standard", " RAMP", "Helix "}, h \in {0, MM},
          xy \in BOOLEAN }

\* Places of the print: next to the left edge, in the transition zone of the
\* left and of the far edge, mid bed, next to the right edge
PrintPlaces ==
    { << MM, 10 * MM >>, << 3 * MM, 10 * MM >>, << 10 * MM, 17 * MM >>,
      << 10 * MM, 10 * MM >>, << 19 * MM, 10 * MM >> }

\* Motion limits a print sets below the maxima of the configuration
LoweredLimits ==
    ("VELOCITY" :> 200) @@ ("ACCEL" :> 1000) @@ ("ACCEL_TO_DECEL" :> 500)
      @@ ("SQUARE_CORNER_VELOCITY" :> 3)

BracketInit ==
    \E cfg \in BracketConfigs, xy \in PrintPlaces, z \in StartZ :
        InitWith(cfg, [x |-> xy[1], y |-> xy[2], z |-> z], TRUE)

\* The print lowers the motion limits
SET_VELOCITY_LIMIT ==
    /\ ~shutdown
    /\ toolhead.max_velocity # LoweredLimits["VELOCITY"]
    /\ Commit(process_command(World, Cmd("SET_VELOCITY_LIMIT", LoweredLimits)),
              "SET_VELOCITY_LIMIT")
    /\ UNCHANGED homed

BracketNext ==
    \/ G10
    \/ G11
    \/ CLEAR_RETRACTION
    \/ SET_VELOCITY_LIMIT

BracketSpec == BracketInit /\ [][BracketNext]_vars

----------------------------------------------------------------------------
(* Helix retracts all over the bed                                         *)

\* Helix configurations: hop heights below, at and above the Z travel left,
\* gentle and steep slopes, with and without [stepper_x]/[stepper_y]
HelixConfigs ==
    { [ConfigBase EXCEPT !.z_hop_style = "helix",
                         !.z_hop_height = h,
                         !.helix_slope = sl,
                         !.has_stepper_xy = xy,
                         !.has_virtual_sdcard = FALSE] :
          h \in {MM \div 5, MM, 3 * MM}, sl \in {200, 500, 1000},
          xy \in BOOLEAN }

\* Every whole-millimetre place of the bed, the edges and corners included
HelixPlaces == { << x * MM, y * MM >> : x, y \in 0..20 }

HelixInit ==
    \E cfg \in HelixConfigs, xy \in HelixPlaces :
        InitWith(cfg, [x |-> xy[1], y |-> xy[2], z |-> 0], TRUE)

HelixNext ==
    \/ G10
    \/ G11

HelixSpec == HelixInit /\ [][HelixNext]_vars

----------------------------------------------------------------------------
(* Requests with numbers below the minimum of their field                  *)

\* SET_RETRACTION commands with a number out of range: a negative length,
\* extra length and hop height, a speed below 1, several at once; and one
\* within range, after which a retract is possible again
OutOfRangeRequests ==
    { Param("RETRACT_LENGTH", -1 * MM),
      Param("RETRACT_SPEED", 0),
      Param("UNRETRACT_EXTRA_LENGTH", -1 * (MM \div 2)),
      Param("UNRETRACT_SPEED", -5),
      Param("Z_HOP_HEIGHT", -1 * MM),
      [NoParams EXCEPT !.keys = {"RETRACT_LENGTH", "RETRACT_SPEED",
                                 "UNRETRACT_EXTRA_LENGTH"},
                       !.RETRACT_LENGTH = 3 * MM,
                       !.RETRACT_SPEED = -30,
                       !.UNRETRACT_EXTRA_LENGTH = -2 * MM],
      Param("RETRACT_LENGTH", MM) }

RequestInit ==
    \E cfg \in MotionConfigs :
        InitWith(cfg, [x |-> 10 * MM, y |-> 10 * MM, z |-> 0], TRUE)

SET_RETRACTION_OutOfRange ==
    /\ ~shutdown
    /\ fr.is_retracted => Len(fr.stored_set_retraction_gcmds) < MaxQueue
    /\ \E gcmd \in OutOfRangeRequests :
           Commit(cmd_SET_RETRACTION(World, gcmd), "SET_RETRACTION")
    /\ UNCHANGED homed

RequestNext ==
    \/ SET_RETRACTION_OutOfRange
    \/ G10
    \/ G11
    \/ CLEAR_RETRACTION

RequestSpec == RequestInit /\ [][RequestNext]_vars

----------------------------------------------------------------------------
(* The earlier variant, firmware_retraction_zhop.py.  Its parameters, its   *)
(* _execute_set_retraction, _get_config_params and _G1_zhop read as those   *)
(* above; it has no handler-swapped flag, no helix geometry and no          *)
(* zero-length guard.                                                       *)

_toggle_gcode_commands(w, new_cmd_name, old_cmd_name, new_cmd_func, toggle_state) ==
    LET prev_cmd == w.gcode_handlers[old_cmd_name]
        w1 == register_command(w, old_cmd_name, "None")
    IN  IF ~toggle_state
        THEN register_command(
                 register_command(w1, new_cmd_name, prev_cmd),
                 old_cmd_name, new_cmd_func)
        ELSE register_command(
                 register_command(w1, new_cmd_name, new_cmd_func),
                 new_cmd_name, prev_cmd)

zhop_unregister_G1(w) ==
    _toggle_gcode_commands(
        _toggle_gcode_commands(w, "G1.20140114", "G1", "_G1_zhop", FALSE),
        "G0.20140114", "G0", "_G1_zhop", FALSE)

zhop_re_register_G1(w) ==
    _toggle_gcode_commands(
        _toggle_gcode_commands(w, "G1", "G1.20140114", "None", TRUE),
        "G0", "G0.20140114", "None", TRUE)

zhop_execute_clear_retraction(w) ==
    LET w1 == zhop_re_register_G1(w)
        w2 == [w1 EXCEPT !.fr.is_retracted = FALSE,
                         !.fr.ramp_move = FALSE,
                         !.fr.stored_set_retraction_gcmds = << >>]
    IN  IF w2.fr.config_params_on_clear
        THEN [w2 EXCEPT !.fr = _get_config_params(w2.fr, w2.config)]
        ELSE w2

zhop_evaluate_retraction(w) ==
    IF w.fr.is_retracted
    THEN IF w.fr.vsdcard_paused
         THEN [w EXCEPT !.fr.vsdcard_paused = FALSE]
         ELSE zhop_execute_clear_retraction(w)
    ELSE w

zhop_cmd_SET_RETRACTION(w, gcmd) ==
    IF ~w.fr.is_retracted
    THEN [w EXCEPT !.fr = _execute_set_retraction(w.fr, gcmd)]
    ELSE [w EXCEPT !.fr.stored_set_retraction_gcmds =
                       Append(w.fr.stored_set_retraction_gcmds, gcmd)]

zhop_cmd_CLEAR_RETRACTION(w) ==
    IF w.fr.is_retracted THEN zhop_execute_clear_retraction(w) ELSE w

_set_safe_zhop_params(w) ==
    LET cz == _get_gcode_pos(w).z
        safe == IF cz + w.fr.z_hop_height > w.config.max_z
                THEN w.config.max_z - cz
                ELSE w.fr.z_hop_height
    IN  [w EXCEPT !.fr.currentZ = cz,
                  !.fr.safe_z_hop_height = safe,
                  !.fr.z_hop_Z = cz + safe]

\* The retracting branch of cmd_G10 (lines 105-148); the helix arc has the
\* fixed centre offset I-1.22 J0
zhop_Retract(w) ==
    LET head == << StateCmd("SAVE_GCODE_STATE", "_retract_state"),
                   Cmd("G91", << >>),
                   Cmd("G1", ("E" :> -1 * w.fr.retract_length)
                               @@ ("F" :> Feed(w.fr.retract_speed))),
                   Cmd("G90", << >>) >>
        hop == w.fr.z_hop_height > 0
        w1 == IF hop THEN _set_safe_zhop_params(w) ELSE w
        w2 == IF hop /\ w1.fr.z_hop_style = "ramp"
              THEN [w1 EXCEPT !.fr.ramp_move = TRUE]
              ELSE w1
        move == IF hop /\ w1.fr.z_hop_style = "helix"
                THEN << Cmd("G17", << >>),
                        Cmd("G2", ("Z" :> w1.fr.z_hop_Z)
                                    @@ ("I" :> -1 * ((122 * MM) \div 100))
                                    @@ ("J" :> 0)) >>
                ELSE IF hop /\ w1.fr.z_hop_style = "standard"
                     THEN << Cmd("G1", "Z" :> w1.fr.z_hop_Z) >>
                     ELSE << >>
        tail == << StateCmd("RESTORE_GCODE_STATE", "_retract_state") >>
        w3 == run_script_from_command(w2, head \o move \o tail)
        w4 == [w3 EXCEPT !.fr.is_retracted = TRUE]
    IN  IF w3.raised
        THEN w3
        ELSE IF hop THEN zhop_unregister_G1(w4) ELSE w4

zhop_cmd_G10(w) ==
    IF ~w.homed THEN w
    ELSE IF ~w.can_extrude THEN w
    ELSE IF ~w.fr.is_retracted THEN zhop_Retract(w)
    ELSE w

\* The unretracting branch of cmd_G11 (lines 160-194)
zhop_Unretract(w) ==
    LET hop == w.fr.z_hop_height > 0
        w1 == IF hop THEN zhop_re_register_G1(w) ELSE w
        head == << StateCmd("SAVE_GCODE_STATE", "_unretract_state"),
                   Cmd("G91", << >>),
                   Cmd("G1", ("E" :> w1.fr.unretract_length)
                               @@ ("F" :> Feed(w1.fr.unretract_speed))) >>
        plain == ~hop \/ w1.fr.ramp_move
        w2 == IF plain THEN [w1 EXCEPT !.fr.ramp_move = FALSE] ELSE w1
        moves == IF plain
                 THEN << >>
                 ELSE << Cmd("G1", "Z" :> -1 * w1.fr.safe_z_hop_height) >>
        tail == << StateCmd("RESTORE_GCODE_STATE", "_unretract_state") >>
        w3 == run_script_from_command(w2, head \o moves \o tail)
        w4 == [w3 EXCEPT !.fr.is_retracted = FALSE]
    IN  IF w3.raised
        THEN w3
        ELSE [w4 EXCEPT
                !.fr = [ReplayStored(w4.fr, w4.fr.stored_set_retraction_gcmds)
                          EXCEPT !.stored_set_retraction_gcmds = << >>]]

zhop_cmd_G11(w) ==
    IF w.fr.is_retracted
    THEN IF ~w.can_extrude
         THEN zhop_execute_clear_retraction(w)
         ELSE zhop_Unretract(w)
    ELSE w

\* Configurations of the variant: it needs a [stepper_z] section
ZhopConfigs ==
    { [ConfigBase EXCEPT !.z_hop_style = st,
                         !.z_hop_height = h,
                         !.has_stepper_z = TRUE,
                         !.has_virtual_sdcard = FALSE] :
          st \in {"standard", " RAMP", "Helix "}, h \in {0, MM} }

ZhopInit ==
    \E cfg \in ZhopConfigs, z \in StartZ :
        InitWith(cfg, [x |-> 10 * MM, y |-> 10 * MM, z |-> z], TRUE)

zhop_SET_RETRACTION ==
    /\ ~shutdown
    /\ fr.is_retracted => Len(fr.stored_set_retraction_gcmds) < MaxQueue
    /\ \E gcmd \in Requests :
           Commit(zhop_cmd_SET_RETRACTION(World, gcmd), "SET_RETRACTION")
    /\ UNCHANGED homed

zhop_CLEAR_RETRACTION ==
    /\ ~shutdown
    /\ Commit(zhop_cmd_CLEAR_RETRACTION(World), "CLEAR_RETRACTION")
    /\ UNCHANGED homed

zhop_G10 ==
    /\ ~shutdown
    /\ Commit(zhop_cmd_G10(World), "G10")
    /\ UNCHANGED homed

zhop_G11 ==
    /\ ~shutdown
    /\ Commit(zhop_cmd_G11(World), "G11")
    /\ UNCHANGED homed

\* homing:home_rails_begin; the homing may leave all axes homed
zhop_home_rails_begin ==
    /\ ~shutdown
    /\ Commit(zhop_evaluate_retraction(World), "home_rails_begin")
    /\ homed' \in {homed, TRUE}

\* stepper_enable:motor_off; the kinematics forget the homing
zhop_motor_off ==
    /\ ~shutdown
    /\ Commit(zhop_evaluate_retraction(World), "motor_off")
    /\ homed' = FALSE

ZhopNext ==
    \/ zhop_SET_RETRACTION
    \/ zhop_CLEAR_RETRACTION
    \/ zhop_G10
    \/ zhop_G11
    \/ zhop_home_rails_begin
    \/ zhop_motor_off
    \/ Heater

ZhopSpec == ZhopInit /\ [][ZhopNext]_vars

----------------------------------------------------------------------------
(* Vocabulary of the properties *)

Queue(f) == f.stored_set_retraction_gcmds

\* The live parameters SET_RETRACTION governs, with the derived length
LiveParams(f) ==
    << f.retract_length, f.retract_speed, f.unretract_extra_length,
       f.unretract_speed, f.unretract_length, f.z_hop_height, f.z_hop_style >>

\* The fields of RetractionConfig
RetractionConfig(f) ==
    << f.retract_length, f.retract_speed, f.unretract_extra_length,
       f.unretract_speed, f.z_hop_height, f.z_hop_style, f.helix_slope,
       f.verbose, f.config_params_on_clear >>

\* The dispatch table with the builtin G1/G0 in place
OriginalHandlers ==
    [n \in HandlerNames |-> IF n \in {"G1", "G0"} THEN "cmd_G1" ELSE "None"]

\* The dispatch table with the MotionRewriter installed
SwappedHandlers ==
    [n \in HandlerNames |-> IF n \in {"G1", "G0"} THEN "_G1_zhop" ELSE "cmd_G1"]

\* This step is the handling of command or event name (the heater alone
\* changes can_extrude and handles nothing)
Did(name) == op' = name /\ can_extrude' = can_extrude

\* This step clears the retraction: it leaves Retracted other than by a warm
\* unretract
Clears == fr.is_retracted /\ ~fr'.is_retracted /\ ~(Did("G11") /\ can_extrude)

\* This step is a warm unretract from Retracted
WarmUnretract ==
    Did("G11") /\ fr.is_retracted /\ can_extrude /\ fr.retract_length # 0

\* The collaborators and the command log are as they were
CollaboratorsUnchanged ==
    /\ gcode_handlers' = gcode_handlers
    /\ gcode_move' = gcode_move
    /\ toolhead' = toolhead
    /\ ~shutdown'

----------------------------------------------------------------------------
(* C1 *)

\* C1: after every applied or replayed SET_RETRACTION and after every clear,
\* unretract_length = retract_length + unretract_extra_length.
C1_UnretractLengthAfterSetOrClear ==
    [][ (\/ Did("SET_RETRACTION") /\ ~fr.is_retracted
         \/ WarmUnretract /\ Queue(fr) # << >>
         \/ Clears)
        => fr'.unretract_length =
               fr'.retract_length + fr'.unretract_extra_length ]_vars

----------------------------------------------------------------------------
(* C2 *)

\* The events whose handler evaluates with the pause flag as it stands
EvaluatingSignals ==
    {"homing_move_begin", "motor_off", "start_printing", "complete_printing"}

\* C2: an evaluation made while Retracted with the suppression flag set does
\* not clear: the machine stays Retracted, the rewriter stays installed, the
\* queue and the parameters are kept, and only the suppression flag is reset.
C2_PauseSuppressesClear ==
    [][ (fr.is_retracted /\ fr.vsdcard_paused
           /\ \E e \in EvaluatingSignals : Did(e))
        => /\ fr' = [fr EXCEPT !.vsdcard_paused = FALSE,
                               !.printing_from_VSDCard =
                                   fr'.printing_from_VSDCard]
           /\ gcode_handlers' = gcode_handlers
           /\ (fr.z_hop_height > 0 => gcode_handlers' = SwappedHandlers)
           /\ script' = << >> ]_vars

\* An evaluation has just been suppressed with requests queued and the
\* rewriter installed
C2_Witness ==
    /\ op \in EvaluatingSignals
    /\ pre.is_retracted /\ pre.vsdcard_paused
    /\ fr.is_retracted /\ ~fr.vsdcard_paused
    /\ Len(Queue(fr)) = pre.queued /\ pre.queued > 0
    /\ gcode_handlers = SwappedHandlers

----------------------------------------------------------------------------
(* C3 *)

\* C3 as claimed: job-paused while Retracted followed by job-started leaves
\* the machine Unretracted.
C3_PauseThenStartClears ==
    [][ (op = "paused_printing" /\ fr.is_retracted /\ Did("start_printing"))
        => ~fr'.is_retracted ]_vars

\* C3 amended: job-paused while Retracted followed by job-started does not
\* clear (the machine stays Retracted and the suppression flag is reset);
\* followed by job-reset it does clear.
C3_PauseThenStartKeeps ==
    [][ (op = "paused_printing" /\ fr.is_retracted)
        => /\ Did("start_printing")
                => fr'.is_retracted /\ ~fr'.vsdcard_paused
           /\ Did("reset_file") => ~fr'.is_retracted ]_vars

\* job-started has just been handled right after a job-paused that arrived
\* while Retracted
C3_Witness ==
    /\ op = "start_printing" /\ pre.op = "paused_printing"
    /\ pre.is_retracted /\ pre.vsdcard_paused
    /\ fr.is_retracted

----------------------------------------------------------------------------
(* C4 *)

\* C4: SET_RETRACTION while Retracted changes no live parameter; its only
\* effect is to append the request at the tail of the deferred queue.
C4_SetWhileRetractedOnlyQueues ==
    [][ (Did("SET_RETRACTION") /\ fr.is_retracted)
        => /\ \E gcmd \in Requests :
                  fr' = [fr EXCEPT !.stored_set_retraction_gcmds =
                                       Append(Queue(fr), gcmd)]
           /\ LiveParams(fr') = LiveParams(fr)
           /\ CollaboratorsUnchanged
           /\ script' = << >> ]_vars

\* A second request has just been queued behind a first
C4_Witness ==
    /\ op = "SET_RETRACTION"
    /\ pre.is_retracted /\ pre.queued = 1
    /\ fr.is_retracted /\ Len(Queue(fr)) = 2

----------------------------------------------------------------------------
(* C5 *)

\* The last request of q that carries key, 0 if none does
LastWith(q, key) ==
    IF \E i \in 1..Len(q) : key \in q[i].keys
    THEN CHOOSE i \in 1..Len(q) :
             /\ key \in q[i].keys
             /\ \A j \in (i + 1)..Len(q) : key \notin q[j].keys
    ELSE 0

\* The value of a field once q is applied: the last request carrying it wins
Requested(q, key, current) ==
    IF LastWith(q, key) = 0 THEN current ELSE q[LastWith(q, key)][key]

RequestedStyle(q, current) ==
    LET st == StripLower(Requested(q, "Z_HOP_STYLE", current)) IN
    IF st \in valid_z_hop_styles THEN st ELSE "standard"

\* The live parameters once every request of q is applied to f, in order
ParamsAfter(f, q) ==
    LET rl == Requested(q, "RETRACT_LENGTH", f.retract_length)
        ex == Requested(q, "UNRETRACT_EXTRA_LENGTH", f.unretract_extra_length)
    IN  << rl,
           Requested(q, "RETRACT_SPEED", f.retract_speed),
           ex,
           Requested(q, "UNRETRACT_SPEED", f.unretract_speed),
           IF q = << >> THEN f.unretract_length ELSE rl + ex,
           Requested(q, "Z_HOP_HEIGHT", f.z_hop_height),
           IF q = << >> THEN f.z_hop_style
                        ELSE RequestedStyle(q, f.z_hop_style) >>

\* C5: the parameters do not change while Retracted, and after a warm
\* unretract they are those held at retract time with every queued request
\* applied in arrival order (the last request setting a field wins); the
\* queue is then empty.
C5_UnretractReplaysQueueInOrder ==
    [][ /\ (fr.is_retracted /\ fr'.is_retracted)
             => LiveParams(fr') = LiveParams(fr)
        /\ WarmUnretract
             => /\ LiveParams(fr') = ParamsAfter(fr, Queue(fr))
                /\ Queue(fr') = << >>
                /\ ~fr'.is_retracted ]_vars

\* A warm unretract (it extruded the 2 mm held at retract time) has just
\* replayed SeveralFields and then RETRACT_LENGTH=0: both set the retract
\* length, and the later one won
C5_Witness ==
    /\ op = "G11" /\ pre.is_retracted /\ pre.queued = 2
    /\ ~fr.is_retracted /\ Queue(fr) = << >>
    /\ \E i \in 1..Len(script) :
           /\ script[i].cmd = "G1"
           /\ Has(script[i].params, "E")
           /\ script[i].params["E"] = 2 * MM
    /\ fr.retract_length = 0
    /\ fr.unretract_extra_length = 2 * MM
    /\ fr.retract_speed = 30

----------------------------------------------------------------------------
(* C6 *)

\* The parameters as the configuration gives them (the derived length is not
\* a configuration value)
ConfigParams(cfg) ==
    << cfg.retract_length, cfg.retract_speed, cfg.unretract_extra_length,
       cfg.unretract_speed, cfg.z_hop_height,
       _check_z_hop_style([z_hop_style |-> StripLower(cfg.z_hop_style)])
           .z_hop_style >>

WithoutDerived(p) == << p[1], p[2], p[3], p[4], p[6], p[7] >>

\* C6: a request dropped from the deferred queue by a clear is never applied
\* afterwards: a clear empties the queue and applies none of it (the
\* parameters stay or return to the configuration), the queue only ever grows
\* by a newly issued SET_RETRACTION at its tail, and the parameters only
\* change by a SET_RETRACTION of its own request, by a warm unretract applying
\* the queue as it then stands, or by a clear restoring the configuration.
C6_ClearedRequestsNeverReplayed ==
    [][ /\ Clears
             => /\ Queue(fr') = << >>
                /\ \/ LiveParams(fr') = LiveParams(fr)
                   \/ /\ fr.config_params_on_clear
                      /\ WithoutDerived(LiveParams(fr')) = ConfigParams(config)
                      /\ fr'.unretract_length = fr.unretract_length
        /\ Queue(fr') # Queue(fr)
             => \/ Queue(fr') = << >>
                \/ /\ Did("SET_RETRACTION") /\ fr.is_retracted
                   /\ \E gcmd \in Requests :
                          Queue(fr') = Append(Queue(fr), gcmd)
        /\ LiveParams(fr') # LiveParams(fr)
             => \/ /\ Did("SET_RETRACTION") /\ ~fr.is_retracted
                   /\ \E gcmd \in Requests :
                          LiveParams(fr') = ParamsAfter(fr, << gcmd >>)
                \/ /\ WarmUnretract
                   /\ LiveParams(fr') = ParamsAfter(fr, Queue(fr))
                \/ Clears ]_vars

\* CLEAR_RETRACTION has just dropped two queued requests
C6_Witness ==
    /\ op = "CLEAR_RETRACTION"
    /\ pre.is_retracted /\ pre.queued = 2
    /\ ~fr.is_retracted /\ Queue(fr) = << >>

----------------------------------------------------------------------------
(* C7 *)

ClearingSignals ==
    {"homing_move_begin", "motor_off", "reset_file", "start_printing",
     "complete_printing", "cancelled_printing"}

\* C7: after any of the six clearing signals has been handled, having arrived
\* while Retracted with the suppression flag unset, the machine is not
\* retracted, no ramp move is pending, the deferred queue is empty and the
\* MotionRewriter is uninstalled.
C7_SignalsClearRetraction ==
    (op \in ClearingSignals /\ pre.is_retracted /\ ~pre.vsdcard_paused)
    => /\ ~fr.is_retracted
       /\ ~fr.ramp_move
       /\ Queue(fr) = << >>
       /\ gcode_handlers = OriginalHandlers
       /\ ~fr.G1_toggle_state

----------------------------------------------------------------------------
(* C8 *)

\* C8: after job-reset, job-started or job-cancelled has been handled the
\* suppression flag is false.
C8_JobSignalsResetPauseFlag ==
    op \in {"reset_file", "start_printing", "cancelled_printing"}
    => ~fr.vsdcard_paused

----------------------------------------------------------------------------
(* C9 *)

\* C9: a G10 issued when not all axes are homed, or the extruder is cold, or
\* retract_length is 0, or the machine is already retracted, sends no command
\* and leaves every state variable unchanged; it does not raise.
C9_RejectedRetractIsNoOp ==
    [][ (/\ Did("G10")
         /\ \/ ~homed
            \/ ~can_extrude
            \/ fr.retract_length = 0
            \/ fr.is_retracted)
        => /\ script' = << >>
           /\ fr' = fr
           /\ CollaboratorsUnchanged
           /\ homed' = homed ]_vars

\* A G10 has just been rejected for unhomed axes, with retraction enabled,
\* the extruder warm and the machine not retracted
C9_Witness ==
    /\ op = "G10"
    /\ ~homed /\ can_extrude
    /\ fr.retract_length > 0
    /\ ~pre.is_retracted /\ ~fr.is_retracted
    /\ script = << >>

----------------------------------------------------------------------------
(* C10 *)

\* The last operation was a G10 that retracted
JustRetracted == op = "G10" /\ ~pre.is_retracted /\ fr.is_retracted

\* C10 as claimed: a retract followed immediately by an unretract ends not
\* retracted with every RetractionConfig field as before the retract,
\* whatever the extruder temperature at unretract time.
C10_RetractUnretractKeepsConfig ==
    [][ /\ Did("G10") => RetractionConfig(fr') = RetractionConfig(fr)
        /\ (JustRetracted /\ Did("G11"))
             => /\ ~fr'.is_retracted
                /\ RetractionConfig(fr') = RetractionConfig(fr) ]_vars

\* C10 amended: a retract followed immediately by an unretract ends not
\* retracted; every RetractionConfig field is as before the retract when the
\* extruder is warm at unretract time or config_params_on_clear is unset,
\* and otherwise (cold unretract with config_params_on_clear set) the
\* parameters are those of the configuration.
C10_RetractUnretractKeepsConfigWhenWarm ==
    [][ /\ Did("G10") => RetractionConfig(fr') = RetractionConfig(fr)
        /\ (JustRetracted /\ Did("G11"))
             => /\ ~fr'.is_retracted
                /\ (can_extrude \/ ~fr.config_params_on_clear)
                     => RetractionConfig(fr') = RetractionConfig(fr)
                /\ (~can_extrude /\ fr.config_params_on_clear)
                     => /\ WithoutDerived(LiveParams(fr'))
                              = ConfigParams(config)
                        /\ fr'.helix_slope = config.helix_slope
                        /\ fr'.verbose = config.verbose
                        /\ fr'.config_params_on_clear
                              = config.config_params_on_clear ]_vars

\* A warm unretract has just followed a retract made under a run-time
\* override (retract_speed 30), and the override is still in force
C10_Witness ==
    /\ op = "G11" /\ pre.op = "G10"
    /\ pre.is_retracted /\ pre.queued = 0
    /\ ~fr.is_retracted
    /\ script # << >>
    /\ fr.retract_speed = 30

----------------------------------------------------------------------------
(* C11 *)

\* The state clear() leaves: not retracted, no ramp move pending, nothing
\* queued, the builtin G1/G0 in place
Cleared(f, handlers) ==
    /\ ~f.is_retracted
    /\ ~f.ramp_move
    /\ Queue(f) = << >>
    /\ handlers = OriginalHandlers
    /\ ~f.G1_toggle_state

\* The RetractionConfig fields as __init__ sets them
StartupConfig == RetractionConfig(FirmwareRetraction(config))

\* The parameters are reloaded from the configuration iff the flag is set
ReloadedIffFlag ==
    /\ fr.config_params_on_clear
         => RetractionConfig(fr') = StartupConfig
    /\ ~fr.config_params_on_clear
         => RetractionConfig(fr') = RetractionConfig(fr)

\* C11: a G11 issued while retracted with the extruder below its minimum
\* extrude temperature sends no command and has the effect of clear(): not
\* retracted, no ramp move pending, the queue dropped unapplied, the
\* MotionRewriter uninstalled, and the parameters reloaded from the
\* configuration iff config_params_on_clear is set.
C11_ColdUnretractIsClear ==
    [][ (Did("G11") /\ fr.is_retracted /\ ~can_extrude)
        => /\ script' = << >>
           /\ Cleared(fr', gcode_handlers')
           /\ ReloadedIffFlag
           /\ gcode_move' = gcode_move /\ toolhead' = toolhead
           /\ ~shutdown' ]_vars

\* A cold G11 has just dropped a queued request under a configuration that
\* keeps the run-time parameters
C11_Witness ==
    /\ op = "G11" /\ ~can_extrude
    /\ pre.is_retracted /\ pre.queued = 1
    /\ Cleared(fr, gcode_handlers)
    /\ script = << >>
    /\ ~fr.config_params_on_clear /\ fr.retract_speed = 30

----------------------------------------------------------------------------
(* C12 *)

\* The signals whose handler is the evaluation alone
PlainEvaluations == {"homing_move_begin", "motor_off"}

\* The signals of the job queue, whose handler keeps its own flags first
JobSignals ==
    {"reset_file", "start_printing", "complete_printing",
     "cancelled_printing"}

\* C12: a clear from Retracted sends no command and leaves the machine not
\* retracted, with no ramp move pending, the queue empty and the
\* MotionRewriter uninstalled; CLEAR_RETRACTION or an evaluation while not
\* retracted changes nothing (a job signal then changes its own flags only).
C12_ClearSendsNothing ==
    [][ /\ Clears
             => /\ script' = << >>
                /\ Cleared(fr', gcode_handlers')
                /\ gcode_move' = gcode_move /\ toolhead' = toolhead
                /\ ~shutdown'
        /\ (~fr.is_retracted
              /\ (Did("CLEAR_RETRACTION") \/ \E e \in PlainEvaluations : Did(e)))
             => /\ fr' = fr
                /\ script' = << >>
                /\ CollaboratorsUnchanged
        /\ (~fr.is_retracted /\ \E e \in JobSignals : Did(e))
             => /\ fr' = [fr EXCEPT
                            !.vsdcard_paused = fr'.vsdcard_paused,
                            !.printing_from_VSDCard = fr'.printing_from_VSDCard]
                /\ script' = << >>
                /\ CollaboratorsUnchanged ]_vars

\* CLEAR_RETRACTION has just been ignored on a machine that is not retracted
\* and runs under parameters set at run time
C12_Witness ==
    /\ op = "CLEAR_RETRACTION"
    /\ ~pre.is_retracted /\ ~fr.is_retracted
    /\ fr.config_params_on_clear
    /\ fr.retract_speed = 30
    /\ script = << >>

----------------------------------------------------------------------------
(* C13 *)

\* C13: a clear reloads the parameters from the configuration if and only if
\* config_params_on_clear is set: with the flag set every RetractionConfig
\* field has its startup value after the clear, with the flag unset every
\* RetractionConfig field is as before the clear.
C13_ClearReloadsIffFlag ==
    [][ Clears => ReloadedIffFlag ]_vars

\* A lifecycle clear has just kept the run-time parameters, the flag being
\* unset
C13_Witness ==
    /\ op = "motor_off"
    /\ pre.is_retracted /\ ~fr.is_retracted
    /\ ~fr.config_params_on_clear
    /\ fr.retract_speed = 30 /\ fr.retract_length = MM
    /\ RetractionConfig(fr) # StartupConfig

----------------------------------------------------------------------------
(* C14 *)

\* C14: ramp_move is true only while is_retracted is true (so it is false
\* after any unretract or clear).
C14_RampOnlyWhileRetracted ==
    fr.ramp_move => fr.is_retracted

\* A clear has just ended a ramp-style retraction whose ramp move was still
\* pending
C14_Witness ==
    /\ op = "CLEAR_RETRACTION"
    /\ pre.is_retracted /\ pre.queued = 0
    /\ ~fr.is_retracted /\ ~fr.ramp_move
    /\ ~fr.config_params_on_clear
    /\ fr.z_hop_style = "ramp" /\ fr.z_hop_height > 0

----------------------------------------------------------------------------
(* C15 *)

\* C15: while z_hop_height is 0 no operation touches the dispatch entries of
\* G1/G0, and a retraction made with z_hop_height 0 runs with the builtin
\* G1/G0 in place.
C15_NoSwapWithoutHop ==
    [][ /\ fr.z_hop_height = 0 => gcode_handlers' = gcode_handlers
        /\ (fr'.is_retracted /\ fr'.z_hop_height = 0)
             => /\ gcode_handlers' = OriginalHandlers
                /\ ~fr'.G1_toggle_state ]_vars

\* A warm unretract has just ended a retraction made with z_hop_height 0
C15_Witness ==
    /\ op = "G11" /\ pre.op = "G10"
    /\ pre.is_retracted /\ ~fr.is_retracted
    /\ fr.z_hop_height = 0
    /\ script # << >>
    /\ gcode_handlers = OriginalHandlers

----------------------------------------------------------------------------
(* C16 *)

\* This step handles a G1 of the print that the MotionRewriter intercepts
Intercepts == Did("G1") /\ gcode_handlers["G1"] = "_G1_zhop"

\* The commands this step sent that went to the original handler
Forwarded ==
    SelectSeq(script', LAMBDA c : c.cmd \in {"G1.20140114", "G0.20140114"})

\* The parameters of the command this step was given
Given == script'[1].params

\* C16: when a ramp move is pending, an intercepted motion command with no Z
\* is forwarded to the original handler exactly once, with Z injected: the
\* safe hop height in relative mode, the hop target Z in absolute mode; the
\* ramp flag is false afterwards.
C16_RampInjectsHopOnce ==
    [][ (Intercepts /\ fr.ramp_move /\ ~Has(Given, "Z"))
        => /\ Forwarded =
                << Cmd("G1.20140114",
                       Put(Given, "Z",
                           IF gcode_move.absolute_coordinates
                           THEN fr.z_hop_Z
                           ELSE fr.safe_z_hop_height)) >>
           /\ Len(script') = 2
           /\ ~fr'.ramp_move ]_vars

\* The first move after a ramp-style retract, in relative mode at a height
\* other than 0, has just been forwarded with the safe hop height as its Z
C16_Witness ==
    /\ op = "G1" /\ pre.op = "G10" /\ pre.is_retracted
    /\ fr.is_retracted /\ fr.z_hop_style = "ramp" /\ ~fr.ramp_move
    /\ ~gcode_move.absolute_coordinates
    /\ Len(script) = 2
    /\ ~Has(script[1].params, "Z")
    /\ script[2].cmd = "G1.20140114"
    /\ script[2].params = Put(script[1].params, "Z", fr.safe_z_hop_height)
    /\ fr.z_hop_Z # fr.safe_z_hop_height

----------------------------------------------------------------------------
(* C17 *)

\* C17: when no ramp move is pending, an intercepted motion command is
\* forwarded exactly once with its parameters unchanged, except that a Z
\* given in absolute mode is raised by the safe hop height.
C17_InterceptOffsetsAbsoluteZ ==
    [][ (Intercepts /\ ~fr.ramp_move)
        => /\ Forwarded =
                << Cmd("G1.20140114",
                       IF Has(Given, "Z") /\ gcode_move.absolute_coordinates
                       THEN Put(Given, "Z",
                                Given["Z"] + fr.safe_z_hop_height)
                       ELSE Given) >>
           /\ Len(script') = 2
           /\ ~fr'.ramp_move ]_vars

\* A move with X and Z has just been forwarded in relative mode during a
\* retraction with a hop, its parameters unchanged
C17_Witness ==
    /\ op = "G1" /\ pre.is_retracted /\ fr.is_retracted
    /\ fr.z_hop_style = "standard" /\ fr.safe_z_hop_height > 0
    /\ ~gcode_move.absolute_coordinates
    /\ Len(script) = 2
    /\ Has(script[1].params, "Z") /\ Has(script[1].params, "X")
    /\ script[2] = Cmd("G1.20140114", script[1].params)

----------------------------------------------------------------------------
(* C18 *)

\* This step is a G10 that retracts with a hop
RetractsWithHop ==
    /\ Did("G10")
    /\ ~fr.is_retracted /\ fr'.is_retracted
    /\ fr.z_hop_height > 0

\* The gcode Z when this step began
ZBefore == gcode_move.gcode_position.z

Smaller(a, b) == IF a <= b THEN a ELSE b

\* C18: on a machine with a Z travel bound, a retract with hop height h > 0
\* at Z z leaves the safe hop height at min(h, max_z - z), which is neither
\* negative nor above h.
C18_SafeHopHeightIsClamped ==
    [][ (RetractsWithHop /\ config.has_stepper_z)
        => /\ fr'.safe_z_hop_height =
                  Smaller(fr.z_hop_height, config.max_z - ZBefore)
           /\ fr'.safe_z_hop_height >= 0
           /\ fr'.safe_z_hop_height <= fr.z_hop_height ]_vars

\* A standard retract made half a millimetre below the Z bound has just
\* hopped by that half millimetre only
C18_Witness ==
    /\ op = "G10" /\ ~pre.is_retracted /\ fr.is_retracted
    /\ config.has_stepper_z
    /\ fr.z_hop_style = "standard"
    /\ fr.z_hop_height = MM
    /\ fr.safe_z_hop_height = MM \div 2
    /\ gcode_move.gcode_position.z = config.max_z

----------------------------------------------------------------------------
(* C19 *)

\* The Z parameters of the absolute hop moves this step sent
HopMoveTargets ==
    { script'[i].params["Z"] :
        i \in { j \in 1..Len(script') :
                  /\ script'[j].cmd \in {"G1", "G2", "G3"}
                  /\ Has(script'[j].params, "Z") } }

\* C19: in every retract with a hop, the hop target Z (z_hop_Z, the Z of the
\* hop move) is the Z the retract began at plus the safe hop height.
C19_HopTargetIsCurrentZPlusSafe ==
    [][ RetractsWithHop
        => /\ fr'.z_hop_Z = ZBefore + fr'.safe_z_hop_height
           /\ \A z \in HopMoveTargets :
                  z = ZBefore + fr'.safe_z_hop_height ]_vars

----------------------------------------------------------------------------
(* C20 *)

\* C20: on a machine with a Z travel bound, a retract at Z z with hop height
\* h, z + h > max_z, leaves the safe hop height at max_z - z, and an
\* unretract that follows it with no move in between leaves it at that value.
C20_ClampSurvivesUnretract ==
    [][ /\ (RetractsWithHop /\ config.has_stepper_z
              /\ ZBefore + fr.z_hop_height > config.max_z)
             => fr'.safe_z_hop_height = config.max_z - ZBefore
        /\ (JustRetracted /\ config.has_stepper_z /\ fr.z_hop_height > 0
              /\ fr.currentZ + fr.z_hop_height > config.max_z
              /\ Did("G11"))
             => /\ ~fr'.is_retracted
                /\ fr'.safe_z_hop_height = config.max_z - fr.currentZ ]_vars

\* An unretract has just undone, by the clamped half millimetre, the hop of
\* a helix retract made half a millimetre below the Z bound
C20_Witness ==
    /\ op = "G11" /\ pre.op = "G10" /\ pre.is_retracted /\ ~fr.is_retracted
    /\ config.has_stepper_z
    /\ fr.z_hop_style = "helix"
    /\ fr.z_hop_height = MM
    /\ fr.safe_z_hop_height = MM \div 2
    /\ \E i \in 1..Len(script) :
           /\ script[i].cmd = "G1" /\ Has(script[i].params, "Z")
           /\ script[i].params["Z"] = -1 * (MM \div 2)
    /\ gcode_move.gcode_position.z = config.max_z - MM \div 2

----------------------------------------------------------------------------
(* C21 *)

\* This step is a warm G11 that undoes a hop (no ramp move is pending)
UnHops ==
    /\ Did("G11") /\ can_extrude
    /\ fr.is_retracted /\ fr.retract_length # 0
    /\ fr.z_hop_height > 0 /\ ~fr.ramp_move

\* The Z parameters of the relative vertical moves this step sent
UnHopMoves ==
    { script'[i].params["Z"] :
        i \in { j \in 1..Len(script') :
                  /\ script'[j].cmd = "G1"
                  /\ Has(script'[j].params, "Z") } }

\* C21: at unretract time, if the current Z minus the safe hop height is
\* below 0, the safe hop height (as get_status reports it) becomes the
\* current Z, a non-negative value, and the inverse vertical move lowers the
\* tool by that amount, so that Z does not go below 0.
C21_UnHopClampsToCurrentZ ==
    [][ (UnHops /\ ZBefore - fr.safe_z_hop_height < 0)
        => /\ fr'.safe_z_hop_height = ZBefore
           /\ fr'.safe_z_hop_height >= 0
           /\ UnHopMoves = { -1 * ZBefore }
           /\ gcode_move'.gcode_position.z >= 0 ]_vars

----------------------------------------------------------------------------
(* C22 *)

\* The nominal helix radius for a safe hop height: max(safe / slope, epsilon)
NominalRadius(safe, slope) ==
    LET r == (safe * 1000) \div slope IN
    IF r >= SMALLEST_RADIUS THEN r ELSE SMALLEST_RADIUS

\* The smallest of the distances from a position to the four bed edges
EdgeDistance(pos) ==
    Smaller(Smaller(pos.x - config.min_x, config.max_x - pos.x),
            Smaller(pos.y - config.min_y, config.max_y - pos.y))

\* The commands this step sent that move in Z
VerticalMoves ==
    SelectSeq(script', LAMBDA c : /\ c.cmd \in {"G1", "G2", "G3"}
                                  /\ Has(c.params, "Z"))

\* C22: in a helix-style retract on a machine with known X/Y bounds, when
\* the position is within the nominal radius of a bed edge the helix radius
\* is 0 and the hop is one straight vertical move, with no arc and no centre
\* offsets; the helix radius is never negative.
C22_HelixDegradesNearEdge ==
    [][ /\ fr.helix_radius >= 0 /\ fr'.helix_radius >= 0
        /\ (RetractsWithHop /\ fr.z_hop_style = "helix"
              /\ config.has_stepper_xy
              /\ EdgeDistance(gcode_move.gcode_position)
                   <= NominalRadius(fr'.safe_z_hop_height, fr.helix_slope))
             => /\ fr'.helix_radius = 0
                /\ Len(VerticalMoves) = 1
                /\ VerticalMoves[1].cmd = "G1"
                /\ DOMAIN VerticalMoves[1].params = {"Z", "F"} ]_vars

\* A helix retract made 1 mm from the left edge, the nominal radius being
\* 2 mm, has just hopped straight up
C22_Witness ==
    /\ op = "G10" /\ ~pre.is_retracted /\ fr.is_retracted
    /\ fr.z_hop_style = "helix" /\ fr.safe_z_hop_height = MM
    /\ config.has_stepper_xy
    /\ gcode_move.gcode_position.x = MM
    /\ fr.helix_radius = 0
    /\ \E i \in 1..Len(script) :
           script[i] = Cmd("G1", ("Z" :> fr.z_hop_Z)
                                   @@ ("F" :> HopFeed(config.max_velocity)))
    /\ \A i \in 1..Len(script) : script[i].cmd \notin {"G2", "G3"}

----------------------------------------------------------------------------
(* C23 *)

\* The command c is issued again, immediately after a c
Repeats(c) == op = c /\ Did(c)

\* C23: G10, G11 and CLEAR_RETRACTION are safe to repeat: the same command
\* issued a second time immediately after the first sends no command to the
\* command layer and leaves the state as the first invocation left it.
C23_CommandsSafeToRepeat ==
    [][ \A c \in {"G10", "G11", "CLEAR_RETRACTION"} :
          Repeats(c) => /\ script' = << >>
                        /\ fr' = fr
                        /\ CollaboratorsUnchanged ]_vars

\* A G10 that retracted with a hop has been followed by a second G10
C23_Witness ==
    /\ op = "G10" /\ pre.op = "G10" /\ pre.is_retracted
    /\ fr.is_retracted /\ fr.z_hop_height > 0
    /\ gcode_handlers = SwappedHandlers
    /\ script = << >>

----------------------------------------------------------------------------
(* C24 *)

\* The limits of the toolhead
Limits(t) ==
    << t.max_velocity, t.max_accel, t.max_accel_to_decel,
       t.square_corner_velocity >>

\* This step is a retract or unretract that ran its bracket
RunsBracket ==
    /\ Did("G10") \/ Did("G11")
    /\ fr'.is_retracted # fr.is_retracted
    /\ script' # << >>

\* The commands of this step that set a motion limit to a value of the
\* configuration
Overrides ==
    { i \in 1..Len(script') :
        \/ script'[i] = Cmd("M204", "S" :> config.max_accel)
        \/ script'[i] = MaxVelocity(config) }

\* C24: after a successful retract bracket and after a successful unretract
\* bracket the four motion limits are the ones the toolhead had immediately
\* before the operation, although the bracket sets the acceleration (and,
\* with a hop move, the velocities) to the maxima of the configuration
\* while it runs.
C24_BracketRestoresLimits ==
    [][ RunsBracket
          => /\ Limits(toolhead') = Limits(toolhead)
             /\ Overrides # {}
             /\ fr.z_hop_height > 0 /\ ~(Did("G11") /\ fr.ramp_move)
                  => Cardinality(Overrides) = 2
             /\ \A i \in Overrides : i < Len(script') - 1
             /\ script'[Len(script') - 1].cmd = "SET_VELOCITY_LIMIT" ]_vars

\* An unretract with a hop has run under limits the print had lowered, and
\* the lowered limits are in force
C24_Witness ==
    /\ op = "G11" /\ pre.is_retracted /\ ~fr.is_retracted
    /\ toolhead.max_accel = LoweredLimits["ACCEL"]
    /\ toolhead.max_velocity = LoweredLimits["VELOCITY"]
    /\ toolhead.max_accel_to_decel = LoweredLimits["ACCEL_TO_DECEL"]
    /\ toolhead.square_corner_velocity = LoweredLimits["SQUARE_CORNER_VELOCITY"]
    /\ \E i, j \in 1..Len(script) :
           /\ script[i] = Cmd("M204", "S" :> config.max_accel)
           /\ script[j] = MaxVelocity(config)
    /\ config.max_accel # toolhead.max_accel

----------------------------------------------------------------------------
(* C25 *)

\* The minimum of each numeric field of a set-parameters request
Minimum ==
    [ RETRACT_LENGTH |-> 0, RETRACT_SPEED |-> 1, UNRETRACT_EXTRA_LENGTH |-> 0,
      UNRETRACT_SPEED |-> 1, Z_HOP_HEIGHT |-> 0 ]

\* The value of a numeric field once the requests of q are applied: the last
\* request carrying it wins, raised to the minimum when below it
Clamped(q, key, current) ==
    IF LastWith(q, key) = 0
    THEN current
    ELSE IF q[LastWith(q, key)][key] < Minimum[key]
         THEN Minimum[key]
         ELSE q[LastWith(q, key)][key]

\* Some request of q carries a number below the minimum of its field
OutOfRange(q) ==
    \E i \in 1..Len(q) : \E key \in q[i].keys \cap DOMAIN Minimum :
        q[i][key] < Minimum[key]

\* The numeric parameters, with the derived length
Numbers(f) ==
    << f.retract_length, f.retract_speed, f.unretract_extra_length,
       f.unretract_speed, f.z_hop_height, f.unretract_length >>

\* The numeric parameters once every request of q is applied to f, each
\* number raised to its minimum
ClampedAfter(f, q) ==
    LET rl == Clamped(q, "RETRACT_LENGTH", f.retract_length)
        ex == Clamped(q, "UNRETRACT_EXTRA_LENGTH", f.unretract_extra_length)
    IN  << rl,
           Clamped(q, "RETRACT_SPEED", f.retract_speed),
           ex,
           Clamped(q, "UNRETRACT_SPEED", f.unretract_speed),
           Clamped(q, "Z_HOP_HEIGHT", f.z_hop_height),
           IF q = << >> THEN f.unretract_length ELSE rl + ex >>

\* Every parameter is within the bounds of its field
WithinBounds(f) ==
    /\ f.retract_length >= 0 /\ f.retract_speed >= 1
    /\ f.unretract_extra_length >= -1 * MM /\ f.unretract_speed >= 1
    /\ f.z_hop_height >= 0
    /\ f.z_hop_style \in valid_z_hop_styles

----------------------------------------------------------------------------
(* C26 *)

\* C26: no motion command sent by a retract or unretract bracket is
\* intercepted by the MotionRewriter: nothing is forwarded during the step,
\* a retract starts with the original handlers live and installs the
\* rewriter only as its last act, an unretract ends with the original
\* handlers live, having uninstalled the rewriter before its first command.
C26_BracketIsNeverIntercepted ==
    [][ RunsBracket
          => /\ Forwarded = << >>
             /\ Did("G10") => /\ gcode_handlers = OriginalHandlers
                              /\ fr.z_hop_height > 0
                                   => gcode_handlers' = SwappedHandlers
             /\ Did("G11") => /\ gcode_handlers' = OriginalHandlers
                              /\ fr.z_hop_height > 0
                                   => gcode_handlers = SwappedHandlers ]_vars

\* An unretract that began with the rewriter installed has sent its inverse
\* vertical move and its extrusion, none of them forwarded, and the original
\* handlers are live
C26_Witness ==
    /\ op = "G11" /\ pre.is_retracted /\ ~fr.is_retracted
    /\ fr.z_hop_height > 0
    /\ gcode_handlers = OriginalHandlers
    /\ \E i, j \in 1..Len(script) :
           /\ i < j
           /\ script[i].cmd = "G1" /\ Has(script[i].params, "Z")
           /\ script[j].cmd = "G1" /\ Has(script[j].params, "E")
    /\ \A i \in 1..Len(script) :
           script[i].cmd \notin {"G1.20140114", "G0.20140114"}

----------------------------------------------------------------------------
(* C27 *)

\* A streaming signal has been handled right after a job-paused signal that
\* arrived while Retracted
StreamedWhilePaused ==
    /\ op \in PlainEvaluations
    /\ pre.op = "paused_printing" /\ pre.is_retracted /\ pre.vsdcard_paused

\* C27: while a job is paused with the machine Retracted, a streaming signal
\* (homing move begun, motors disabled) arriving before the resume does not
\* cause the retraction to be cleared: the machine is still Retracted after
\* the signal, after a further streaming signal, and after the job-started
\* signal of the resume.
C27_PauseOutlastsStreamingSignals ==
    [][ StreamedWhilePaused
          => /\ fr.is_retracted
             /\ (\E e \in PlainEvaluations \cup {"start_printing"} : Did(e))
                  => fr'.is_retracted ]_vars

----------------------------------------------------------------------------
(* C28 *)

\* A retract has been made right after the job-started signal of a resume
RetractedAfterResume ==
    /\ op = "G10" /\ pre.op = "start_printing" /\ ~pre.is_retracted
    /\ fr.is_retracted

\* C28: a job-paused signal received while Unretracted does not suppress the
\* clearing of a later retraction: once the job is resumed (job started) and
\* the machine retracts, a job-completed, homing-begun or motors-disabled
\* signal leaves the machine Unretracted.
C28_PauseWhileUnretractedIsForgotten ==
    [][ (RetractedAfterResume
           /\ \E e \in {"complete_printing", "homing_move_begin", "motor_off"} :
                  Did(e))
        => ~fr'.is_retracted ]_vars

----------------------------------------------------------------------------
(* C29 *)

\* This step is a successful retract
Retracts == Did("G10") /\ ~fr.is_retracted /\ fr'.is_retracted

\* The positions in this step's script of the moves
MovesSent ==
    { i \in 1..Len(script') : script'[i].cmd \in {"G1", "G2", "G3"} }

\* The hop move of this step in a straight line
LinearHop ==
    Cmd("G1", ("Z" :> fr'.z_hop_Z) @@ ("F" :> HopFeed(config.max_velocity)))

\* The hop move of this step as an arc around the computed centre
ArcHop ==
    Cmd(IF fr'.clockwise_helix THEN "G2" ELSE "G3",
        ("Z" :> fr'.z_hop_Z) @@ ("I" :> fr'.i_offset) @@ ("J" :> fr'.j_offset)
          @@ ("F" :> HopFeed(config.max_velocity)))

\* C29: a successful retract sends the filament retraction before any hop
\* move and the hop according to style: hop height 0, no vertical move and no
\* ramp pending; standard, exactly one linear move to the hop target Z;
\* helix, exactly one move to the hop target Z, an arc with the computed
\* centre offsets when the radius is positive and a linear move when it is
\* 0; ramp, no vertical move and ramp pending; the machine is Retracted
\* afterwards.
C29_RetractSendsHopByStyle ==
    [][ Retracts
          => /\ fr'.is_retracted
             /\ MovesSent # {}
             /\ LET first == CHOOSE i \in MovesSent : \A j \in MovesSent : i <= j
                IN  /\ script'[first] =
                           Cmd("G1", ("E" :> -1 * fr.retract_length)
                                       @@ ("F" :> Feed(fr.retract_speed)))
                    /\ \A j \in MovesSent \ {first} :
                           Has(script'[j].params, "Z")
             /\ fr.z_hop_height = 0
                  => VerticalMoves = << >> /\ ~fr'.ramp_move
             /\ (fr.z_hop_height > 0 /\ fr.z_hop_style = "standard")
                  => VerticalMoves = << LinearHop >> /\ ~fr'.ramp_move
             /\ (fr.z_hop_height > 0 /\ fr.z_hop_style = "helix")
                  => /\ VerticalMoves =
                            << IF fr'.helix_radius > 0 THEN ArcHop
                                                       ELSE LinearHop >>
                     /\ ~fr'.ramp_move
             /\ (fr.z_hop_height > 0 /\ fr.z_hop_style = "ramp")
                  => VerticalMoves = << >> /\ fr'.ramp_move ]_vars

\* A helix retract on a machine without known X/Y bounds, its hop clamped
\* to 0.5 mm by the Z travel, has sent its retraction and then one
\* counter-clockwise arc of 1 mm radius, centred 1 mm to the left, to the
\* hop target
C29_Witness ==
    /\ op = "G10" /\ ~pre.is_retracted /\ fr.is_retracted
    /\ fr.z_hop_style = "helix" /\ fr.z_hop_height > 0
    /\ fr.helix_radius = MM
    /\ \E i, j \in 1..Len(script) :
           /\ i < j
           /\ script[i].cmd = "G1" /\ Has(script[i].params, "E")
           /\ script[j] = Cmd("G3", ("Z" :> fr.z_hop_Z) @@ ("I" :> -1 * MM)
                                      @@ ("J" :> 0)
                                      @@ ("F" :> HopFeed(config.max_velocity)))

----------------------------------------------------------------------------
(* C30 *)

\* The script of a warm unretract from this state: save the command
\* processor's state, relative mode, the inverse vertical move if due (by
\* the safe height fixed in this step), the extrusion by the length and at
\* the speed held when the step began, the motion limits as they were, the
\* command processor's state back
UnretractScript ==
    << StateCmd("SAVE_GCODE_STATE", "_unretract_state"),
       Cmd("M204", "S" :> config.max_accel),
       Cmd("G91", << >>) >>
    \o (IF fr.z_hop_height > 0 /\ ~fr.ramp_move
        THEN << Cmd("SET_VELOCITY_LIMIT",
                    ("VELOCITY" :> config.max_velocity)
                      @@ ("SQUARE_CORNER_VELOCITY" :>
                              config.square_corner_velocity)),
                Cmd("G1", ("Z" :> -1 * Abs(fr'.safe_z_hop_height))
                            @@ ("F" :> HopFeed(config.max_velocity))) >>
        ELSE << >>)
    \o << Cmd("G1", ("E" :> fr.unretract_length)
                      @@ ("F" :> Feed(fr.unretract_speed))),
          Cmd("SET_VELOCITY_LIMIT",
              ("VELOCITY" :> toolhead.max_velocity)
                @@ ("ACCEL" :> toolhead.max_accel)
                @@ ("ACCEL_TO_DECEL" :> toolhead.max_accel_to_decel)
                @@ ("SQUARE_CORNER_VELOCITY" :>
                        toolhead.square_corner_velocity)),
          StateCmd("RESTORE_GCODE_STATE", "_unretract_state") >>

\* C30: a warm unretract from Retracted uninstalls the MotionRewriter (with a
\* hop height > 0) before its first command, then sends, in this order: save
\* of the command processor's state, relative mode, the inverse vertical
\* move if due, the extrusion of the unretract length, the restore of the
\* motion limits, the restore of the command processor's state; afterwards
\* the machine is Unretracted with no ramp move pending and the queued
\* requests are applied.  The inverse vertical move precedes the extrusion,
\* and the queued requests change neither the length nor the speed of this
\* extrusion.
C30_UnretractOrder ==
    [][ WarmUnretract
          => /\ script' = UnretractScript
             /\ fr.z_hop_height > 0 => gcode_handlers' = OriginalHandlers
             /\ ~fr'.is_retracted /\ ~fr'.ramp_move
             /\ gcode_move'.absolute_coordinates
                    = gcode_move.absolute_coordinates
             /\ LiveParams(fr') = ParamsAfter(fr, Queue(fr))
             /\ Queue(fr') = << >> ]_vars

\* A warm unretract has lowered the nozzle by 1 mm, then extruded the 2 mm
\* held at retract time at 10 mm/s, and then applied a queued request for
\* 1 mm at 15 mm/s with 2 mm extra
C30_Witness ==
    /\ op = "G11" /\ pre.is_retracted /\ pre.queued > 0
    /\ ~fr.is_retracted
    /\ Len(script) = 8
    /\ script[5] = Cmd("G1", ("Z" :> -1 * MM)
                               @@ ("F" :> HopFeed(config.max_velocity)))
    /\ script[6] = Cmd("G1", ("E" :> 2 * MM) @@ ("F" :> 600))
    /\ fr.retract_length = MM /\ fr.unretract_speed = 15
    /\ fr.unretract_length = 3 * MM

----------------------------------------------------------------------------
(* C31 *)

\* The gcode Z after this step
ZAfter == gcode_move'.gcode_position.z

\* This step is a motion command handled by the MotionRewriter with the ramp
\* hop still pending: the command it forwards carries the hop
ConsumesRamp ==
    /\ Intercepts /\ fr.ramp_move
    /\ Len(Forwarded) = 1 /\ Has(Forwarded[1].params, "Z")

\* The steps of a retraction keep the ramp flag and the Z in line with the
\* hop moves sent
HopAndUnHopMatch ==
        /\ RetractsWithHop
             => /\ fr'.ramp_move <=> VerticalMoves = << >>
                /\ ZAfter - ZBefore =
                       IF fr'.ramp_move THEN 0 ELSE fr'.safe_z_hop_height
        /\ (fr.is_retracted /\ fr.ramp_move /\ fr'.is_retracted)
             => (~fr'.ramp_move <=> ConsumesRamp)
        /\ (fr.is_retracted /\ ~fr.ramp_move /\ fr'.is_retracted)
             => ~fr'.ramp_move
        /\ (WarmUnretract /\ fr.z_hop_height > 0)
             => (UnHopMoves # {} <=> ~fr.ramp_move)
        /\ (JustRetracted /\ WarmUnretract /\ fr.z_hop_height > 0)
             => ZBefore - ZAfter =
                    IF fr.ramp_move THEN 0 ELSE fr.safe_z_hop_height

\* C31: on a warm unretract with hop height > 0 an inverse vertical move is
\* sent iff a hop was performed since the retract.  The ramp flag records
\* exactly that: a retract leaves it set iff it sent no hop move, it stays
\* set until an intercepted motion command performs the hop, and the
\* unretract sends the inverse move iff it is unset.  A retract and an
\* unretract with nothing in between leave Z where it was: the retract raises
\* Z by the safe hop height if it sends a hop move and not at all otherwise,
\* and the unretract lowers it by as much.
C31_UnHopIffHopped == [][HopAndUnHopMatch]_vars

\* The same on machines with a [stepper_z] section, where the retract reads
\* the current Z
C31_OnMachinesWithZBound == [][config.has_stepper_z => HopAndUnHopMatch]_vars

----------------------------------------------------------------------------
(* C32 *)

\* The handler-swapped flag is set exactly when Retracted with a hop height
InstalledExactlyWhenHopped ==
    fr.G1_toggle_state <=> (fr.is_retracted /\ fr.z_hop_height > 0)

\* The G1 and G0 entries and their renamed builtins are swapped together,
\* as the flag says
SwappedTogether ==
    gcode_handlers =
        IF fr.G1_toggle_state THEN SwappedHandlers ELSE OriginalHandlers

\* This step changes the dispatch table only by installing the rewriter over
\* the originals at a retract, or by uninstalling an installed rewriter
SwapsOnce ==
    gcode_handlers' # gcode_handlers
      => \/ /\ Retracts
            /\ ~fr.G1_toggle_state /\ gcode_handlers = OriginalHandlers
            /\ fr'.G1_toggle_state /\ gcode_handlers' = SwappedHandlers
         \/ /\ fr.is_retracted /\ ~fr'.is_retracted
            /\ fr.G1_toggle_state /\ gcode_handlers = SwappedHandlers
            /\ ~fr'.G1_toggle_state /\ gcode_handlers' = OriginalHandlers

\* C32: in every state between operations the handler-swapped flag is true
\* exactly when is_retracted is true and the hop height is above 0, the G1
\* and G0 entries are swapped together, the install is never executed when
\* the rewriter is already installed, and the uninstall never when it is not.
C32_SwapFollowsRetraction ==
    /\ [](InstalledExactlyWhenHopped /\ SwappedTogether)
    /\ [][SwapsOnce]_vars

\* The rewriter has been installed again by a retract that followed a
\* CLEAR_RETRACTION given while Unretracted, whose uninstall had nothing to do
C32_Witness ==
    /\ op = "G10" /\ pre.op = "CLEAR_RETRACTION" /\ ~pre.is_retracted
    /\ fr.is_retracted /\ fr.z_hop_height > 0
    /\ fr.G1_toggle_state /\ gcode_handlers = SwappedHandlers

----------------------------------------------------------------------------
(* C33 *)

Larger(a, b) == IF a >= b THEN a ELSE b

\* The bed edges: the distance of a position from each and the unit vector
\* pointing from it into the bed
Edges == {"left", "top", "right", "bottom"}

DistanceFrom(edge, pos) ==
    CASE edge = "left"   -> pos.x - config.min_x
      [] edge = "top"    -> config.max_y - pos.y
      [] edge = "right"  -> config.max_x - pos.x
      [] edge = "bottom" -> pos.y - config.min_y

InwardNormal(edge) ==
    CASE edge = "left"   -> << 1, 0 >>
      [] edge = "top"    -> << 0, -1 >>
      [] edge = "right"  -> << -1, 0 >>
      [] edge = "bottom" -> << 0, 1 >>

\* The edges nearest to a position
NearestEdges(pos) ==
    { e \in Edges : DistanceFrom(e, pos) = EdgeDistance(pos) }

\* This step is a helix-style retract with a hop on a machine with known
\* X/Y bounds
HelixRetractWithBounds ==
    RetractsWithHop /\ fr.z_hop_style = "helix" /\ config.has_stepper_xy

\* C33: in a helix-style retract on a machine with known X/Y bounds where
\* the minimum edge distance d satisfies r < d <= 2r for the nominal radius
\* r, the radius is reduced to max(d - r, epsilon); for every non-zero radius
\* the arc centre offset has the magnitude of the radius and points along
\* the inward normal of the nearest edge (left +X, top -Y, right -X,
\* bottom +Y), and the arc sent carries that offset.
C33_TransitionRadiusAndCentre ==
    [][ HelixRetractWithBounds
          => LET pos == gcode_move.gcode_position
                 d == EdgeDistance(pos)
                 r == NominalRadius(fr'.safe_z_hop_height, fr.helix_slope)
             IN  /\ (r < d /\ d <= 2 * r)
                      => fr'.helix_radius = Larger(d - r, SMALLEST_RADIUS)
                 /\ fr'.helix_radius # 0
                      => /\ \E e \in NearestEdges(pos) :
                               << fr'.i_offset, fr'.j_offset >> =
                                   << fr'.helix_radius * InwardNormal(e)[1],
                                      fr'.helix_radius * InwardNormal(e)[2] >>
                         /\ Len(VerticalMoves) = 1
                         /\ VerticalMoves[1].params["I"] = fr'.i_offset
                         /\ VerticalMoves[1].params["J"] = fr'.j_offset ]_vars

\* A helix retract 3 mm from the bottom edge, the nominal radius being 2 mm,
\* has sent an arc of 1 mm radius around a centre 1 mm up the bed
C33_Witness ==
    /\ op = "G10" /\ ~pre.is_retracted /\ fr.is_retracted
    /\ fr.z_hop_style = "helix" /\ config.has_stepper_xy
    /\ gcode_move.gcode_position.x = 10 * MM
    /\ gcode_move.gcode_position.y = 3 * MM
    /\ NominalRadius(fr.safe_z_hop_height, fr.helix_slope) = 2 * MM
    /\ fr.helix_radius = MM
    /\ \E i \in 1..Len(script) :
           /\ script[i].cmd \in {"G2", "G3"}
           /\ script[i].params["I"] = 0 /\ script[i].params["J"] = MM

----------------------------------------------------------------------------
(* C34 *)

\* This step sent a helix arc
SendsArc ==
    /\ Retracts
    /\ \E i \in 1..Len(script') : script'[i].cmd \in {"G2", "G3"}

\* The arc this step sent
ArcSent ==
    script'[CHOOSE i \in 1..Len(script') : script'[i].cmd \in {"G2", "G3"}]

\* The circle of radius around the centre lies inside the bed
CircleInsideBed(centre, radius) ==
    /\ config.min_x <= centre[1] - radius /\ centre[1] + radius <= config.max_x
    /\ config.min_y <= centre[2] - radius /\ centre[2] + radius <= config.max_y

\* C34: for every position inside the X/Y travel bounds of a machine with
\* known bounds, the full circle of the helix arc sent (the centre is the
\* position plus the I/J offset, which lies along one axis, the radius the
\* helix radius, which is the length of the offset) lies inside [min_x, max_x] x [min_y, max_y].
C34_HelixCircleInsideBed ==
    [][ (SendsArc /\ config.has_stepper_xy)
          => LET pos == gcode_move.gcode_position
                 centre == << pos.x + ArcSent.params["I"],
                              pos.y + ArcSent.params["J"] >>
             IN  /\ fr'.helix_radius > 0
                 /\ { Abs(ArcSent.params["I"]), Abs(ArcSent.params["J"]) }
                        = { 0, fr'.helix_radius }
                 /\ CircleInsideBed(centre, fr'.helix_radius) ]_vars

\* A helix retract 3 mm from the right and from the bottom edge has sent an
\* arc of 1 mm radius whose circle reaches to 1 mm from the right edge
C34_Witness ==
    /\ op = "G10" /\ ~pre.is_retracted /\ fr.is_retracted
    /\ fr.z_hop_style = "helix" /\ config.has_stepper_xy
    /\ gcode_move.gcode_position.x = 17 * MM
    /\ gcode_move.gcode_position.y = 3 * MM
    /\ fr.helix_radius = MM
    /\ \E i \in 1..Len(script) :
           /\ script[i].cmd \in {"G2", "G3"}
           /\ script[i].params["I"] = -1 * MM /\ script[i].params["J"] = 0

----------------------------------------------------------------------------
(* C35 *)

\* The current X is at or past the middle of the bed
PastMidpoint(pos) == 2 * pos.x >= config.min_x + config.max_x

\* C35: the rotation of the helix arc: on a machine with known X/Y bounds
\* the arc is clockwise (G2) iff the current X is at or past the midpoint
\* (min_x + max_x) / 2 and counter-clockwise (G3) otherwise; on a machine
\* without known X/Y bounds every helix retract sends an arc, its centre
\* offset is (-radius, 0) and it is counter-clockwise, after any history of
\* earlier retracts.
C35_HelixRotation ==
    [][ (RetractsWithHop /\ fr.z_hop_style = "helix")
          => /\ (config.has_stepper_xy /\ SendsArc)
                  => (ArcSent.cmd = "G2"
                        <=> PastMidpoint(gcode_move.gcode_position))
             /\ ~config.has_stepper_xy
                  => /\ SendsArc
                     /\ fr'.helix_radius > 0
                     /\ ArcSent.cmd = "G3"
                     /\ ArcSent.params["I"] = -1 * fr'.helix_radius
                     /\ ArcSent.params["J"] = 0 ]_vars

\* On a machine with known bounds a second retract right of the midpoint has
\* sent a clockwise arc
C35_Witness ==
    /\ op = "G10" /\ pre.op = "G11" /\ ~pre.is_retracted /\ fr.is_retracted
    /\ fr.z_hop_style = "helix" /\ config.has_stepper_xy
    /\ gcode_move.gcode_position.x = 15 * MM
    /\ gcode_move.gcode_position.y = 10 * MM
    /\ fr.helix_radius > 0 /\ fr.clockwise_helix
    /\ \E i \in 1..Len(script) :
           /\ script[i].cmd = "G2"
           /\ script[i].params["I"] = -1 * fr.helix_radius

----------------------------------------------------------------------------
(* C36 *)

\* C36: an unretract (G11/M101) issued while Retracted always leaves the
\* machine Unretracted, whatever the extruder temperature and the current
\* parameters: it is never rejected by the zero-retract-length guard,
\* because the retract length is greater than 0 in every state in which
\* is_retracted is true.
C36_UnretractAlwaysLeavesRetracted ==
    /\ [](fr.is_retracted => fr.retract_length > 0)
    /\ [][ (Did("G11") /\ fr.is_retracted) => ~fr'.is_retracted ]_vars

\* An unretract has left Retracted and then applied a stored request that
\* set the retract length to zero
C36_Witness ==
    /\ op = "G11" /\ pre.is_retracted /\ pre.queued > 0
    /\ ~fr.is_retracted
    /\ fr.retract_length = 0
    /\ fr.stored_set_retraction_gcmds = << >>

----------------------------------------------------------------------------
(* C37 *)

\* This step leaves the deferred queue longer than it was
Enqueues ==
    Len(fr'.stored_set_retraction_gcmds) > Len(fr.stored_set_retraction_gcmds)

\* C37: in every state between operations the deferred queue is empty
\* whenever the machine is Unretracted: requests are queued only while
\* Retracted (by SET_RETRACTION), and no unretract or clear leaves a request
\* behind.
C37_QueueEmptyWhenUnretracted ==
    /\ [](~fr.is_retracted => fr.stored_set_retraction_gcmds = << >>)
    /\ [][ /\ Enqueues => (Did("SET_RETRACTION") /\ fr.is_retracted
                             /\ fr'.is_retracted)
           /\ (fr.is_retracted /\ ~fr'.is_retracted)
                => fr'.stored_set_retraction_gcmds = << >> ]_vars

\* A lifecycle signal has cleared a retraction that had requests stored
C37_Witness ==
    /\ op \in {"reset_file", "complete_printing", "motor_off"}
    /\ pre.is_retracted /\ pre.queued = MaxQueue
    /\ ~fr.is_retracted
    /\ fr.stored_set_retraction_gcmds = << >>

----------------------------------------------------------------------------
(* C38 *)

\* The retract of the current state with no managed job running
RetractWithoutJob ==
    cmd_G10([World EXCEPT !.fr.printing_from_VSDCard = FALSE], TRUE)

\* This step is a G10 that finds everything a helix retract with a hop needs
HelixRetractDue ==
    /\ Did("G10")
    /\ homed /\ can_extrude /\ fr.retract_length > 0 /\ ~fr.is_retracted
    /\ fr.z_hop_height > 0 /\ fr.z_hop_style = "helix"

\* C38: the outcome of a helix-style retract does not depend on whether a
\* managed job is active: a retract issued after a job-started signal
\* completes without error, sends the same commands and ends in the same
\* Retracted state as one issued at the same position with the same
\* parameters and no managed job running.
C38_HelixRetractIgnoresJob ==
    [][ (HelixRetractDue /\ fr.printing_from_VSDCard)
          => /\ ~shutdown'
             /\ fr'.is_retracted
             /\ script' = RetractWithoutJob.script
             /\ fr' = [RetractWithoutJob.fr
                         EXCEPT !.printing_from_VSDCard = TRUE] ]_vars

\* A helix retract issued after a job-started signal has shut the host down
\* without sending a command, the machine still Unretracted
C38_RetractInJobShutsDown ==
    /\ op = "G10" /\ ~pre.is_retracted
    /\ fr.printing_from_VSDCard
    /\ fr.z_hop_style = "helix" /\ fr.z_hop_height > 0
    /\ shutdown
    /\ ~fr.is_retracted
    /\ script = << >>

----------------------------------------------------------------------------
(* C39 *)

\* C39: in the earlier variant firmware_retraction_zhop.py the original
\* G1/G0 handlers are restored only when the rewriter was previously
\* installed: a clear (CLEAR_RETRACTION, cold unretract or lifecycle
\* evaluation) performed while Retracted with hop height 0 leaves the G1/G0
\* dispatch entries unchanged and still bound to the original handlers.
C39_ClearWithoutHopKeepsHandlers ==
    [][ (Clears /\ fr.z_hop_height = 0)
          => /\ gcode_handlers = OriginalHandlers
             /\ gcode_handlers' = gcode_handlers ]_vars

\* A clear made while Retracted with hop height 0 has left no handler for
\* G1 and none for G0
C39_ClearRemovesHandlers ==
    /\ op \in {"CLEAR_RETRACTION", "G11", "motor_off", "home_rails_begin"}
    /\ pre.is_retracted /\ ~fr.is_retracted
    /\ gcode_handlers = [n \in HandlerNames |-> "None"]

====
